---- MODULE Spec2Model ----
(***************************************************************************)
(* SemrushApp (src/src/universal_mcp_semrush/app.py): the cached API key   *)
(* with its provider lookup, and the 33 report methods, each of which      *)
(* validates its required arguments, reads the key, builds the params      *)
(* dict, sends one GET and hands the response to _handle_response.         *)
(***************************************************************************)
EXTENDS Integers, Sequences, FiniteSets, TLC

VARIABLES
    integration,   \* self.integration is set (TRUE) or None (FALSE)
    _api_key,      \* self._api_key
    base_url,      \* self.base_url
    lookups,       \* spy: calls of integration.get_credentials() so far
    returned,      \* spy: those of them that returned (did not raise)
    keyed,         \* spy: those of them that returned a non-empty api_key
    gets,          \* spy: calls of self._get() so far
    notfound,      \* spy: operations that raised "Integration not found" so far
    calls,         \* operations performed so far
    call,          \* record of the last operation performed
    threads        \* the report calls running concurrently, one per thread

vars == <<integration, _api_key, base_url, lookups, returned, keyed, gets,
          notfound, calls, call, threads>>

(***************************************************************************)
(* Bounds of the model.                                                    *)
(***************************************************************************)
\* operations in one behaviour of Spec and SpecReports
MaxCalls == 3
\* optional arguments a caller of SpecArgs sets at once
MaxPresent == 2
\* extra list lengths, 0..MaxShort, tried beside the lengths around MaxTargets
MaxShort == 3
\* report calls running concurrently in SpecConc
NumThreads == 2

\* the limit of batch_comparison, line 898
MaxTargets == 200

(***************************************************************************)
(* Python values: None, str, int, list.                                    *)
(***************************************************************************)
None == [t |-> "None"]
StrV(s) == [t |-> "str", s |-> s]
IntV(i) == [t |-> "int", i |-> i]
ListV(l) == [t |-> "list", l |-> l]

\* bool(v), as used by `if not domain:` and `if self._api_key:`
Truthy(v) ==
    CASE v.t = "None" -> FALSE
      [] v.t = "str"  -> v.s # ""
      [] v.t = "int"  -> v.i # 0
      [] v.t = "list" -> v.l # <<>>

\* len(v) of a list
PyLen(v) == Len(v.l)

(***************************************************************************)
(* A Python dict: the sequence of its <<key, value>> items in insertion    *)
(* order, every key once.                                                  *)
(***************************************************************************)
DictKeys(d) == {d[i][1] : i \in 1..Len(d)}

DictHas(d, k) == k \in DictKeys(d)

DictGet(d, k) == d[CHOOSE i \in 1..Len(d) : d[i][1] = k][2]

\* d[k] = v : a new key is appended, an existing key keeps its place and
\* takes the new value
DictSet(d, k, v) ==
    IF DictHas(d, k)
    THEN LET i == CHOOSE j \in 1..Len(d) : d[j][1] = k
         IN  SubSeq(d, 1, i - 1) \o <<<<k, v>>>> \o SubSeq(d, i + 1, Len(d))
    ELSE Append(d, <<k, v>>)

\* the marker of a parameter without default in a signature
NoDefault == [t |-> "nodefault"]

(***************************************************************************)
(* The report methods.  Each is written as the table of what its body     *)
(* does: the signature with its defaults, the checks in their order, the   *)
(* items of the dict literal after "type" and "key" (wire key, argument),  *)
(* the arguments assigned element by element in a for loop, the arguments  *)
(* added under `is not None`, and the path appended to base_url.           *)
(***************************************************************************)
\* domain_ad_history(): lines 40-108
domain_ad_history ==
    [name   |-> "domain_ad_history",
     type   |-> "domain_ad_history",
     sig    |-> <<<<"domain", NoDefault>>,
                 <<"database", StrV("us")>>,
                 <<"display_limit", None>>,
                 <<"display_offset", None>>,
                 <<"display_date", None>>,
                 <<"export_columns", None>>,
                 <<"display_sort", None>>,
                 <<"display_filter", None>>,
                 <<"export_escape", None>>,
                 <<"export_decode", None>>>>,
     checks |-> <<[kind |-> "required", arg |-> "domain", msg |-> "Domain parameter is required"]>>,
     init   |-> <<<<"domain", "domain">>,
                 <<"database", "database">>>>,
     arrays |-> <<>>,
     opt    |-> <<<<"display_limit", "display_limit">>,
                 <<"display_offset", "display_offset">>,
                 <<"display_date", "display_date">>,
                 <<"export_columns", "export_columns">>,
                 <<"display_sort", "display_sort">>,
                 <<"display_filter", "display_filter">>,
                 <<"export_escape", "export_escape">>,
                 <<"export_decode", "export_decode">>>>,
     path   |-> ""]

\* domain_organic_pages(): lines 110-178
domain_organic_pages ==
    [name   |-> "domain_organic_pages",
     type   |-> "domain_organic_unique",
     sig    |-> <<<<"domain", NoDefault>>,
                 <<"database", StrV("us")>>,
                 <<"display_limit", None>>,
                 <<"display_offset", None>>,
                 <<"display_date", None>>,
                 <<"export_columns", None>>,
                 <<"display_sort", None>>,
                 <<"display_filter", None>>,
                 <<"export_escape", None>>,
                 <<"export_decode", None>>>>,
     checks |-> <<[kind |-> "required", arg |-> "domain", msg |-> "Domain parameter is required"]>>,
     init   |-> <<<<"domain", "domain">>,
                 <<"database", "database">>>>,
     arrays |-> <<>>,
     opt    |-> <<<<"display_limit", "display_limit">>,
                 <<"display_offset", "display_offset">>,
                 <<"display_date", "display_date">>,
                 <<"export_columns", "export_columns">>,
                 <<"display_sort", "display_sort">>,
                 <<"display_filter", "display_filter">>,
                 <<"export_escape", "export_escape">>,
                 <<"export_decode", "export_decode">>>>,
     path   |-> ""]

\* domain_organic_search_keywords(): lines 180-256
domain_organic_search_keywords ==
    [name   |-> "domain_organic_search_keywords",
     type   |-> "domain_organic",
     sig    |-> <<<<"domain", NoDefault>>,
                 <<"database", StrV("us")>>,
                 <<"display_limit", None>>,
                 <<"display_offset", None>>,
                 <<"display_date", None>>,
                 <<"display_daily", None>>,
                 <<"export_columns", None>>,
                 <<"display_sort", None>>,
                 <<"display_positions", None>>,
                 <<"display_positions_type", None>>,
                 <<"display_filter", None>>,
                 <<"export_escape", None>>>>,
     checks |-> <<[kind |-> "required", arg |-> "domain", msg |-> "Domain parameter is required"]>>,
     init   |-> <<<<"domain", "domain">>,
                 <<"database", "database">>>>,
     arrays |-> <<>>,
     opt    |-> <<<<"display_limit", "display_limit">>,
                 <<"display_offset", "display_offset">>,
                 <<"display_date", "display_date">>,
                 <<"display_daily", "display_daily">>,
                 <<"export_columns", "export_columns">>,
                 <<"display_sort", "display_sort">>,
                 <<"display_positions", "display_positions">>,
                 <<"display_positions_type", "display_positions_type">>,
                 <<"display_filter", "display_filter">>,
                 <<"export_escape", "export_escape">>>>,
     path   |-> ""]

\* domain_organic_subdomains(): lines 258-322
domain_organic_subdomains ==
    [name   |-> "domain_organic_subdomains",
     type   |-> "domain_organic_subdomains",
     sig    |-> <<<<"domain", NoDefault>>,
                 <<"database", StrV("us")>>,
                 <<"display_limit", None>>,
                 <<"display_offset", None>>,
                 <<"display_date", None>>,
                 <<"export_columns", None>>,
                 <<"display_sort", None>>,
                 <<"export_escape", None>>,
                 <<"export_decode", None>>>>,
     checks |-> <<[kind |-> "required", arg |-> "domain", msg |-> "Domain parameter is required"]>>,
     init   |-> <<<<"domain", "domain">>,
                 <<"database", "database">>>>,
     arrays |-> <<>>,
     opt    |-> <<<<"display_limit", "display_limit">>,
                 <<"display_offset", "display_offset">>,
                 <<"display_date", "display_date">>,
                 <<"export_columns", "export_columns">>,
                 <<"display_sort", "display_sort">>,
                 <<"export_escape", "export_escape">>,
                 <<"export_decode", "export_decode">>>>,
     path   |-> ""]

\* domain_paid_search_keywords(): lines 324-396
domain_paid_search_keywords ==
    [name   |-> "domain_paid_search_keywords",
     type   |-> "domain_adwords",
     sig    |-> <<<<"domain", NoDefault>>,
                 <<"database", StrV("us")>>,
                 <<"display_limit", None>>,
                 <<"display_offset", None>>,
                 <<"display_date", None>>,
                 <<"export_columns", None>>,
                 <<"display_sort", None>>,
                 <<"display_positions", None>>,
                 <<"display_filter", None>>,
                 <<"export_escape", None>>,
                 <<"export_decode", None>>>>,
     checks |-> <<[kind |-> "required", arg |-> "domain", msg |-> "Domain parameter is required"]>>,
     init   |-> <<<<"domain", "domain">>,
                 <<"database", "database">>>>,
     arrays |-> <<>>,
     opt    |-> <<<<"display_limit", "display_limit">>,
                 <<"display_offset", "display_offset">>,
                 <<"display_date", "display_date">>,
                 <<"export_columns", "export_columns">>,
                 <<"display_sort", "display_sort">>,
                 <<"display_positions", "display_positions">>,
                 <<"display_filter", "display_filter">>,
                 <<"export_escape", "export_escape">>,
                 <<"export_decode", "export_decode">>>>,
     path   |-> ""]

\* domain_pla_search_keywords(): lines 398-462
domain_pla_search_keywords ==
    [name   |-> "domain_pla_search_keywords",
     type   |-> "domain_shopping",
     sig    |-> <<<<"domain", NoDefault>>,
                 <<"database", StrV("us")>>,
                 <<"display_limit", None>>,
                 <<"display_offset", None>>,
                 <<"export_columns", None>>,
                 <<"display_sort", None>>,
                 <<"display_filter", None>>,
                 <<"export_escape", None>>,
                 <<"export_decode", None>>>>,
     checks |-> <<[kind |-> "required", arg |-> "domain", msg |-> "Domain parameter is required"]>>,
     init   |-> <<<<"domain", "domain">>,
                 <<"database", "database">>>>,
     arrays |-> <<>>,
     opt    |-> <<<<"display_limit", "display_limit">>,
                 <<"display_offset", "display_offset">>,
                 <<"export_columns", "export_columns">>,
                 <<"display_sort", "display_sort">>,
                 <<"display_filter", "display_filter">>,
                 <<"export_escape", "export_escape">>,
                 <<"export_decode", "export_decode">>>>,
     path   |-> ""]

\* domain_vs_domain(): lines 464-537
domain_vs_domain ==
    [name   |-> "domain_vs_domain",
     type   |-> "domain_domains",
     sig    |-> <<<<"domains", NoDefault>>,
                 <<"database", StrV("us")>>,
                 <<"display_limit", None>>,
                 <<"display_offset", None>>,
                 <<"display_date", None>>,
                 <<"export_columns", None>>,
                 <<"display_sort", None>>,
                 <<"display_filter", None>>,
                 <<"export_escape", None>>,
                 <<"export_decode", None>>>>,
     checks |-> <<[kind |-> "required", arg |-> "domains", msg |-> "Domains parameter is required"]>>,
     init   |-> <<<<"domains", "domains">>,
                 <<"database", "database">>>>,
     arrays |-> <<>>,
     opt    |-> <<<<"display_limit", "display_limit">>,
                 <<"display_offset", "display_offset">>,
                 <<"display_date", "display_date">>,
                 <<"export_columns", "export_columns">>,
                 <<"display_sort", "display_sort">>,
                 <<"display_filter", "display_filter">>,
                 <<"export_escape", "export_escape">>,
                 <<"export_decode", "export_decode">>>>,
     path   |-> ""]

\* backlinks(): lines 539-598
backlinks ==
    [name   |-> "backlinks",
     type   |-> "backlinks",
     sig    |-> <<<<"target", NoDefault>>,
                 <<"target_type", NoDefault>>,
                 <<"export_columns", None>>,
                 <<"display_sort", None>>,
                 <<"display_limit", None>>,
                 <<"display_offset", None>>,
                 <<"display_filter", None>>>>,
     checks |-> <<[kind |-> "required", arg |-> "target", msg |-> "Target parameter is required"],
                 [kind |-> "required", arg |-> "target_type", msg |-> "Target_type parameter is required"]>>,
     init   |-> <<<<"target", "target">>,
                 <<"target_type", "target_type">>>>,
     arrays |-> <<>>,
     opt    |-> <<<<"export_columns", "export_columns">>,
                 <<"display_sort", "display_sort">>,
                 <<"display_limit", "display_limit">>,
                 <<"display_offset", "display_offset">>,
                 <<"display_filter", "display_filter">>>>,
     path   |-> "/analytics/v1"]

\* backlinks_overview(): lines 600-659
backlinks_overview ==
    [name   |-> "backlinks_overview",
     type   |-> "backlinks_overview",
     sig    |-> <<<<"target", NoDefault>>,
                 <<"target_type", NoDefault>>,
                 <<"export_columns", None>>,
                 <<"display_sort", None>>,
                 <<"display_limit", None>>,
                 <<"display_offset", None>>,
                 <<"display_filter", None>>>>,
     checks |-> <<[kind |-> "required", arg |-> "target", msg |-> "Target parameter is required"],
                 [kind |-> "required", arg |-> "target_type", msg |-> "Target_type parameter is required"]>>,
     init   |-> <<<<"target", "target">>,
                 <<"target_type", "target_type">>>>,
     arrays |-> <<>>,
     opt    |-> <<<<"export_columns", "export_columns">>,
                 <<"display_sort", "display_sort">>,
                 <<"display_limit", "display_limit">>,
                 <<"display_offset", "display_offset">>,
                 <<"display_filter", "display_filter">>>>,
     path   |-> "/analytics/v1"]

\* keyword_difficulty(): lines 661-705
keyword_difficulty ==
    [name   |-> "keyword_difficulty",
     type   |-> "phrase_kdi",
     sig    |-> <<<<"phrase", NoDefault>>,
                 <<"database", StrV("us")>>,
                 <<"export_columns", None>>,
                 <<"export_escape", None>>>>,
     checks |-> <<[kind |-> "required", arg |-> "phrase", msg |-> "Phrase parameter is required"]>>,
     init   |-> <<<<"phrase", "phrase">>,
                 <<"database", "database">>>>,
     arrays |-> <<>>,
     opt    |-> <<<<"export_columns", "export_columns">>,
                 <<"export_escape", "export_escape">>>>,
     path   |-> ""]

\* ads_copies(): lines 707-771
ads_copies ==
    [name   |-> "ads_copies",
     type   |-> "domain_adwords_unique",
     sig    |-> <<<<"domain", NoDefault>>,
                 <<"database", StrV("us")>>,
                 <<"display_limit", None>>,
                 <<"display_offset", None>>,
                 <<"export_columns", None>>,
                 <<"display_sort", None>>,
                 <<"display_filter", None>>,
                 <<"export_escape", None>>,
                 <<"export_decode", None>>>>,
     checks |-> <<[kind |-> "required", arg |-> "domain", msg |-> "Domain parameter is required"]>>,
     init   |-> <<<<"domain", "domain">>,
                 <<"database", "database">>>>,
     arrays |-> <<>>,
     opt    |-> <<<<"display_limit", "display_limit">>,
                 <<"display_offset", "display_offset">>,
                 <<"export_columns", "export_columns">>,
                 <<"display_sort", "display_sort">>,
                 <<"display_filter", "display_filter">>,
                 <<"export_escape", "export_escape">>,
                 <<"export_decode", "export_decode">>>>,
     path   |-> ""]

\* anchors(): lines 773-828
anchors ==
    [name   |-> "anchors",
     type   |-> "backlinks_anchors",
     sig    |-> <<<<"target", NoDefault>>,
                 <<"target_type", NoDefault>>,
                 <<"export_columns", None>>,
                 <<"display_sort", None>>,
                 <<"display_limit", None>>,
                 <<"display_offset", None>>>>,
     checks |-> <<[kind |-> "required", arg |-> "target", msg |-> "Target parameter is required"],
                 [kind |-> "required", arg |-> "target_type", msg |-> "Target_type parameter is required"]>>,
     init   |-> <<<<"target", "target">>,
                 <<"target_type", "target_type">>>>,
     arrays |-> <<>>,
     opt    |-> <<<<"export_columns", "export_columns">>,
                 <<"display_sort", "display_sort">>,
                 <<"display_limit", "display_limit">>,
                 <<"display_offset", "display_offset">>>>,
     path   |-> "/analytics/v1"]

\* authority_score_profile(): lines 830-868
authority_score_profile ==
    [name   |-> "authority_score_profile",
     type   |-> "backlinks_ascore_profile",
     sig    |-> <<<<"target", NoDefault>>,
                 <<"target_type", NoDefault>>>>,
     checks |-> <<[kind |-> "required", arg |-> "target", msg |-> "Target parameter is required"],
                 [kind |-> "required", arg |-> "target_type", msg |-> "Target_type parameter is required"]>>,
     init   |-> <<<<"target", "target">>,
                 <<"target_type", "target_type">>>>,
     arrays |-> <<>>,
     opt    |-> <<>>,
     path   |-> "/analytics/v1"]

\* batch_comparison(): lines 870-921
batch_comparison ==
    [name   |-> "batch_comparison",
     type   |-> "backlinks_comparison",
     sig    |-> <<<<"targets", NoDefault>>,
                 <<"target_types", NoDefault>>,
                 <<"export_columns", None>>>>,
     checks |-> <<[kind |-> "required", arg |-> "targets", msg |-> "Targets parameter is required"],
                 [kind |-> "required", arg |-> "target_types", msg |-> "Target_types parameter is required"],
                 [kind |-> "maxlen", arg |-> "targets", max |-> MaxTargets, msg |-> "Maximum 200 targets allowed"],
                 [kind |-> "samelen", arg |-> "targets", other |-> "target_types", msg |-> "Targets and target_types arrays must have the same length"]>>,
     init   |-> <<>>,
     arrays |-> <<<<"targets[]", "targets">>,
                 <<"target_types[]", "target_types">>>>,
     opt    |-> <<<<"export_columns", "export_columns">>>>,
     path   |-> "/analytics/v1"]

\* batch_keyword_overview(): lines 923-975
batch_keyword_overview ==
    [name   |-> "batch_keyword_overview",
     type   |-> "phrase_these",
     sig    |-> <<<<"phrase", NoDefault>>,
                 <<"database", StrV("us")>>,
                 <<"export_escape", None>>,
                 <<"export_decode", None>>,
                 <<"display_date", None>>,
                 <<"export_columns", None>>>>,
     checks |-> <<[kind |-> "required", arg |-> "phrase", msg |-> "Phrase parameter is required"]>>,
     init   |-> <<<<"phrase", "phrase">>,
                 <<"database", "database">>>>,
     arrays |-> <<>>,
     opt    |-> <<<<"export_escape", "export_escape">>,
                 <<"export_decode", "export_decode">>,
                 <<"display_date", "display_date">>,
                 <<"export_columns", "export_columns">>>>,
     path   |-> ""]

\* broad_match_keyword(): lines 977-1041
broad_match_keyword ==
    [name   |-> "broad_match_keyword",
     type   |-> "phrase_fullsearch",
     sig    |-> <<<<"phrase", NoDefault>>,
                 <<"database", StrV("us")>>,
                 <<"display_limit", None>>,
                 <<"display_offset", None>>,
                 <<"export_escape", None>>,
                 <<"export_decode", None>>,
                 <<"export_columns", None>>,
                 <<"display_sort", None>>,
                 <<"display_filter", None>>>>,
     checks |-> <<[kind |-> "required", arg |-> "phrase", msg |-> "Phrase parameter is required"]>>,
     init   |-> <<<<"phrase", "phrase">>,
                 <<"database", "database">>>>,
     arrays |-> <<>>,
     opt    |-> <<<<"display_limit", "display_limit">>,
                 <<"display_offset", "display_offset">>,
                 <<"export_escape", "export_escape">>,
                 <<"export_decode", "export_decode">>,
                 <<"export_columns", "export_columns">>,
                 <<"display_sort", "display_sort">>,
                 <<"display_filter", "display_filter">>>>,
     path   |-> ""]

\* categories(): lines 1043-1086
categories ==
    [name   |-> "categories",
     type   |-> "backlinks_categories",
     sig    |-> <<<<"target", NoDefault>>,
                 <<"target_type", NoDefault>>,
                 <<"export_columns", None>>>>,
     checks |-> <<[kind |-> "required", arg |-> "target", msg |-> "Target parameter is required"],
                 [kind |-> "required", arg |-> "target_type", msg |-> "Target_type parameter is required"]>>,
     init   |-> <<<<"target", "target">>,
                 <<"target_type", "target_type">>>>,
     arrays |-> <<>>,
     opt    |-> <<<<"export_columns", "export_columns">>>>,
     path   |-> "/analytics/v1"]

\* categories_profile(): lines 1088-1139
categories_profile ==
    [name   |-> "categories_profile",
     type   |-> "backlinks_categories_profile",
     sig    |-> <<<<"target", NoDefault>>,
                 <<"target_type", NoDefault>>,
                 <<"export_columns", None>>,
                 <<"display_limit", None>>,
                 <<"display_offset", None>>>>,
     checks |-> <<[kind |-> "required", arg |-> "target", msg |-> "Target parameter is required"],
                 [kind |-> "required", arg |-> "target_type", msg |-> "Target_type parameter is required"]>>,
     init   |-> <<<<"target", "target">>,
                 <<"target_type", "target_type">>>>,
     arrays |-> <<>>,
     opt    |-> <<<<"export_columns", "export_columns">>,
                 <<"display_limit", "display_limit">>,
                 <<"display_offset", "display_offset">>>>,
     path   |-> "/analytics/v1"]

\* competitors(): lines 1141-1192
competitors ==
    [name   |-> "competitors",
     type   |-> "backlinks_competitors",
     sig    |-> <<<<"target", NoDefault>>,
                 <<"target_type", NoDefault>>,
                 <<"export_columns", None>>,
                 <<"display_limit", None>>,
                 <<"display_offset", None>>>>,
     checks |-> <<[kind |-> "required", arg |-> "target", msg |-> "Target parameter is required"],
                 [kind |-> "required", arg |-> "target_type", msg |-> "Target_type parameter is required"]>>,
     init   |-> <<<<"target", "target">>,
                 <<"target_type", "target_type">>>>,
     arrays |-> <<>>,
     opt    |-> <<<<"export_columns", "export_columns">>,
                 <<"display_limit", "display_limit">>,
                 <<"display_offset", "display_offset">>>>,
     path   |-> "/analytics/v1"]

\* competitors_organic_search(): lines 1194-1258
competitors_organic_search ==
    [name   |-> "competitors_organic_search",
     type   |-> "domain_organic_organic",
     sig    |-> <<<<"domain", NoDefault>>,
                 <<"database", StrV("us")>>,
                 <<"display_limit", None>>,
                 <<"display_offset", None>>,
                 <<"export_escape", None>>,
                 <<"export_decode", None>>,
                 <<"display_date", None>>,
                 <<"export_columns", None>>,
                 <<"display_sort", None>>>>,
     checks |-> <<[kind |-> "required", arg |-> "domain", msg |-> "Domain parameter is required"]>>,
     init   |-> <<<<"domain", "domain">>,
                 <<"database", "database">>>>,
     arrays |-> <<>>,
     opt    |-> <<<<"display_limit", "display_limit">>,
                 <<"display_offset", "display_offset">>,
                 <<"export_escape", "export_escape">>,
                 <<"export_decode", "export_decode">>,
                 <<"display_date", "display_date">>,
                 <<"export_columns", "export_columns">>,
                 <<"display_sort", "display_sort">>>>,
     path   |-> ""]

\* competitors_paid_search(): lines 1260-1324
competitors_paid_search ==
    [name   |-> "competitors_paid_search",
     type   |-> "domain_adwords_adwords",
     sig    |-> <<<<"domain", NoDefault>>,
                 <<"database", StrV("us")>>,
                 <<"display_limit", None>>,
                 <<"display_offset", None>>,
                 <<"export_escape", None>>,
                 <<"export_decode", None>>,
                 <<"display_date", None>>,
                 <<"export_columns", None>>,
                 <<"display_sort", None>>>>,
     checks |-> <<[kind |-> "required", arg |-> "domain", msg |-> "Domain parameter is required"]>>,
     init   |-> <<<<"domain", "domain">>,
                 <<"database", "database">>>>,
     arrays |-> <<>>,
     opt    |-> <<<<"display_limit", "display_limit">>,
                 <<"display_offset", "display_offset">>,
                 <<"export_escape", "export_escape">>,
                 <<"export_decode", "export_decode">>,
                 <<"display_date", "display_date">>,
                 <<"export_columns", "export_columns">>,
                 <<"display_sort", "display_sort">>>>,
     path   |-> ""]

\* indexed_pages(): lines 1326-1381
indexed_pages ==
    [name   |-> "indexed_pages",
     type   |-> "backlinks_pages",
     sig    |-> <<<<"target", NoDefault>>,
                 <<"target_type", NoDefault>>,
                 <<"export_columns", None>>,
                 <<"display_sort", None>>,
                 <<"display_limit", None>>,
                 <<"display_offset", None>>>>,
     checks |-> <<[kind |-> "required", arg |-> "target", msg |-> "Target parameter is required"],
                 [kind |-> "required", arg |-> "target_type", msg |-> "Target_type parameter is required"]>>,
     init   |-> <<<<"target", "target">>,
                 <<"target_type", "target_type">>>>,
     arrays |-> <<>>,
     opt    |-> <<<<"export_columns", "export_columns">>,
                 <<"display_sort", "display_sort">>,
                 <<"display_limit", "display_limit">>,
                 <<"display_offset", "display_offset">>>>,
     path   |-> "/analytics/v1"]

\* keyword_ads_history(): lines 1383-1439
keyword_ads_history ==
    [name   |-> "keyword_ads_history",
     type   |-> "phrase_adwords_historical",
     sig    |-> <<<<"phrase", NoDefault>>,
                 <<"database", StrV("us")>>,
                 <<"display_limit", None>>,
                 <<"display_offset", None>>,
                 <<"export_escape", None>>,
                 <<"export_decode", None>>,
                 <<"export_columns", None>>>>,
     checks |-> <<[kind |-> "required", arg |-> "phrase", msg |-> "Phrase parameter is required"]>>,
     init   |-> <<<<"phrase", "phrase">>,
                 <<"database", "database">>>>,
     arrays |-> <<>>,
     opt    |-> <<<<"display_limit", "display_limit">>,
                 <<"display_offset", "display_offset">>,
                 <<"export_escape", "export_escape">>,
                 <<"export_decode", "export_decode">>,
                 <<"export_columns", "export_columns">>>>,
     path   |-> ""]

\* keyword_overview_all_databases(): lines 1441-1490
keyword_overview_all_databases ==
    [name   |-> "keyword_overview_all_databases",
     type   |-> "phrase_all",
     sig    |-> <<<<"phrase", NoDefault>>,
                 <<"database", None>>,
                 <<"export_escape", None>>,
                 <<"export_decode", None>>,
                 <<"export_columns", None>>>>,
     checks |-> <<[kind |-> "required", arg |-> "phrase", msg |-> "Phrase parameter is required"]>>,
     init   |-> <<<<"phrase", "phrase">>>>,
     arrays |-> <<>>,
     opt    |-> <<<<"database", "database">>,
                 <<"export_escape", "export_escape">>,
                 <<"export_decode", "export_decode">>,
                 <<"export_columns", "export_columns">>>>,
     path   |-> ""]

\* keyword_overview_one_database(): lines 1492-1544
keyword_overview_one_database ==
    [name   |-> "keyword_overview_one_database",
     type   |-> "phrase_this",
     sig    |-> <<<<"phrase", NoDefault>>,
                 <<"database", StrV("us")>>,
                 <<"export_escape", None>>,
                 <<"export_decode", None>>,
                 <<"display_date", None>>,
                 <<"export_columns", None>>>>,
     checks |-> <<[kind |-> "required", arg |-> "phrase", msg |-> "Phrase parameter is required"]>>,
     init   |-> <<<<"phrase", "phrase">>,
                 <<"database", "database">>>>,
     arrays |-> <<>>,
     opt    |-> <<<<"export_escape", "export_escape">>,
                 <<"export_decode", "export_decode">>,
                 <<"display_date", "display_date">>,
                 <<"export_columns", "export_columns">>>>,
     path   |-> ""]

\* organic_results(): lines 1546-1610
organic_results ==
    [name   |-> "organic_results",
     type   |-> "phrase_organic",
     sig    |-> <<<<"phrase", NoDefault>>,
                 <<"database", StrV("us")>>,
                 <<"display_limit", None>>,
                 <<"display_offset", None>>,
                 <<"export_escape", None>>,
                 <<"export_decode", None>>,
                 <<"display_date", None>>,
                 <<"export_columns", None>>,
                 <<"positions_type", None>>>>,
     checks |-> <<[kind |-> "required", arg |-> "phrase", msg |-> "Phrase parameter is required"]>>,
     init   |-> <<<<"phrase", "phrase">>,
                 <<"database", "database">>>>,
     arrays |-> <<>>,
     opt    |-> <<<<"display_limit", "display_limit">>,
                 <<"display_offset", "display_offset">>,
                 <<"export_escape", "export_escape">>,
                 <<"export_decode", "export_decode">>,
                 <<"display_date", "display_date">>,
                 <<"export_columns", "export_columns">>,
                 <<"positions_type", "positions_type">>>>,
     path   |-> ""]

\* paid_results(): lines 1612-1672
paid_results ==
    [name   |-> "paid_results",
     type   |-> "phrase_adwords",
     sig    |-> <<<<"phrase", NoDefault>>,
                 <<"database", StrV("us")>>,
                 <<"display_limit", None>>,
                 <<"display_offset", None>>,
                 <<"export_escape", None>>,
                 <<"export_decode", None>>,
                 <<"display_date", None>>,
                 <<"export_columns", None>>>>,
     checks |-> <<[kind |-> "required", arg |-> "phrase", msg |-> "Phrase parameter is required"]>>,
     init   |-> <<<<"phrase", "phrase">>,
                 <<"database", "database">>>>,
     arrays |-> <<>>,
     opt    |-> <<<<"display_limit", "display_limit">>,
                 <<"display_offset", "display_offset">>,
                 <<"export_escape", "export_escape">>,
                 <<"export_decode", "export_decode">>,
                 <<"display_date", "display_date">>,
                 <<"export_columns", "export_columns">>>>,
     path   |-> ""]

\* phrase_questions(): lines 1674-1738
phrase_questions ==
    [name   |-> "phrase_questions",
     type   |-> "phrase_questions",
     sig    |-> <<<<"phrase", NoDefault>>,
                 <<"database", StrV("us")>>,
                 <<"display_limit", None>>,
                 <<"display_offset", None>>,
                 <<"export_escape", None>>,
                 <<"export_decode", None>>,
                 <<"export_columns", None>>,
                 <<"display_sort", None>>,
                 <<"display_filter", None>>>>,
     checks |-> <<[kind |-> "required", arg |-> "phrase", msg |-> "Phrase parameter is required"]>>,
     init   |-> <<<<"phrase", "phrase">>,
                 <<"database", "database">>>>,
     arrays |-> <<>>,
     opt    |-> <<<<"display_limit", "display_limit">>,
                 <<"display_offset", "display_offset">>,
                 <<"export_escape", "export_escape">>,
                 <<"export_decode", "export_decode">>,
                 <<"export_columns", "export_columns">>,
                 <<"display_sort", "display_sort">>,
                 <<"display_filter", "display_filter">>>>,
     path   |-> ""]

\* pla_competitors(): lines 1740-1800
pla_competitors ==
    [name   |-> "pla_competitors",
     type   |-> "domain_shopping_shopping",
     sig    |-> <<<<"domain", NoDefault>>,
                 <<"database", StrV("us")>>,
                 <<"display_limit", None>>,
                 <<"display_offset", None>>,
                 <<"export_escape", None>>,
                 <<"export_decode", None>>,
                 <<"export_columns", None>>,
                 <<"display_sort", None>>>>,
     checks |-> <<[kind |-> "required", arg |-> "domain", msg |-> "Domain parameter is required"]>>,
     init   |-> <<<<"domain", "domain">>,
                 <<"database", "database">>>>,
     arrays |-> <<>>,
     opt    |-> <<<<"display_limit", "display_limit">>,
                 <<"display_offset", "display_offset">>,
                 <<"export_escape", "export_escape">>,
                 <<"export_decode", "export_decode">>,
                 <<"export_columns", "export_columns">>,
                 <<"display_sort", "display_sort">>>>,
     path   |-> ""]

\* pla_copies(): lines 1802-1866
pla_copies ==
    [name   |-> "pla_copies",
     type   |-> "domain_shopping_unique",
     sig    |-> <<<<"domain", NoDefault>>,
                 <<"database", StrV("us")>>,
                 <<"display_limit", None>>,
                 <<"display_offset", None>>,
                 <<"export_escape", None>>,
                 <<"export_decode", None>>,
                 <<"export_columns", None>>,
                 <<"display_sort", None>>,
                 <<"display_filter", None>>>>,
     checks |-> <<[kind |-> "required", arg |-> "domain", msg |-> "Domain parameter is required"]>>,
     init   |-> <<<<"domain", "domain">>,
                 <<"database", "database">>>>,
     arrays |-> <<>>,
     opt    |-> <<<<"display_limit", "display_limit">>,
                 <<"display_offset", "display_offset">>,
                 <<"export_escape", "export_escape">>,
                 <<"export_decode", "export_decode">>,
                 <<"export_columns", "export_columns">>,
                 <<"display_sort", "display_sort">>,
                 <<"display_filter", "display_filter">>>>,
     path   |-> ""]

\* referring_domains(): lines 1868-1927
referring_domains ==
    [name   |-> "referring_domains",
     type   |-> "backlinks_refdomains",
     sig    |-> <<<<"target", NoDefault>>,
                 <<"target_type", NoDefault>>,
                 <<"export_columns", None>>,
                 <<"display_sort", None>>,
                 <<"display_limit", None>>,
                 <<"display_offset", None>>,
                 <<"display_filter", None>>>>,
     checks |-> <<[kind |-> "required", arg |-> "target", msg |-> "Target parameter is required"],
                 [kind |-> "required", arg |-> "target_type", msg |-> "Target_type parameter is required"]>>,
     init   |-> <<<<"target", "target">>,
                 <<"target_type", "target_type">>>>,
     arrays |-> <<>>,
     opt    |-> <<<<"export_columns", "export_columns">>,
                 <<"display_sort", "display_sort">>,
                 <<"display_limit", "display_limit">>,
                 <<"display_offset", "display_offset">>,
                 <<"display_filter", "display_filter">>>>,
     path   |-> "/analytics/v1"]

\* referring_domains_by_country(): lines 1929-1984
referring_domains_by_country ==
    [name   |-> "referring_domains_by_country",
     type   |-> "backlinks_geo",
     sig    |-> <<<<"target", NoDefault>>,
                 <<"target_type", NoDefault>>,
                 <<"export_columns", None>>,
                 <<"display_sort", None>>,
                 <<"display_limit", None>>,
                 <<"display_offset", None>>>>,
     checks |-> <<[kind |-> "required", arg |-> "target", msg |-> "Target parameter is required"],
                 [kind |-> "required", arg |-> "target_type", msg |-> "Target_type parameter is required"]>>,
     init   |-> <<<<"target", "target">>,
                 <<"target_type", "target_type">>>>,
     arrays |-> <<>>,
     opt    |-> <<<<"export_columns", "export_columns">>,
                 <<"display_sort", "display_sort">>,
                 <<"display_limit", "display_limit">>,
                 <<"display_offset", "display_offset">>>>,
     path   |-> "/analytics/v1"]

\* related_keywords(): lines 1986-2050
related_keywords ==
    [name   |-> "related_keywords",
     type   |-> "phrase_related",
     sig    |-> <<<<"phrase", NoDefault>>,
                 <<"database", StrV("us")>>,
                 <<"display_limit", None>>,
                 <<"display_offset", None>>,
                 <<"export_escape", None>>,
                 <<"export_decode", None>>,
                 <<"export_columns", None>>,
                 <<"display_sort", None>>,
                 <<"display_filter", None>>>>,
     checks |-> <<[kind |-> "required", arg |-> "phrase", msg |-> "Phrase parameter is required"]>>,
     init   |-> <<<<"phrase", "phrase">>,
                 <<"database", "database">>>>,
     arrays |-> <<>>,
     opt    |-> <<<<"display_limit", "display_limit">>,
                 <<"display_offset", "display_offset">>,
                 <<"export_escape", "export_escape">>,
                 <<"export_decode", "export_decode">>,
                 <<"export_columns", "export_columns">>,
                 <<"display_sort", "display_sort">>,
                 <<"display_filter", "display_filter">>>>,
     path   |-> ""]

\* list_tools(): the report methods of the application
Reports ==
    {domain_ad_history, domain_organic_pages, domain_organic_search_keywords,
     domain_organic_subdomains, domain_paid_search_keywords,
     domain_pla_search_keywords, domain_vs_domain, backlinks,
     backlinks_overview, keyword_difficulty, ads_copies, anchors,
     authority_score_profile, batch_comparison, batch_keyword_overview,
     broad_match_keyword, categories, categories_profile, competitors,
     competitors_organic_search, competitors_paid_search, indexed_pages,
     keyword_ads_history, keyword_overview_all_databases,
     keyword_overview_one_database, organic_results, paid_results,
     phrase_questions, pla_competitors, pla_copies, referring_domains,
     referring_domains_by_country, related_keywords}

(***************************************************************************)
(* Exceptions.                                                             *)
(***************************************************************************)
NoExc == [type |-> "none"]
ValueError(msg) == [type |-> "ValueError", msg |-> msg]
\* whatever integration.get_credentials() raises
ProviderError == [type |-> "ProviderError"]

(***************************************************************************)
(* The credential: _get_headers and the api_key property.  `s` is the part *)
(* of the instance they read and write, with the spies:                    *)
(*   [integration, key, lookups, returned, keyed, exc, ret].               *)
(* `prov` is what the provider does if it is asked now:                    *)
(*   [raises |-> TRUE] or [raises |-> FALSE, creds |-> <dict>].            *)
(***************************************************************************)
\* the api_key setter, lines 31-38
api_key_setter(s, value) == [s EXCEPT !.key = value]

\* mutant of _get_headers: the provider is asked without looking for the
\* integration first
_get_headers_NoCheck(s, prov) ==
    IF prov.raises
    THEN [s EXCEPT !.lookups = @ + 1, !.exc = ProviderError]
    ELSE LET credentials == prov.creds
             has == DictHas(credentials, "api_key")
             s1 == [s EXCEPT !.lookups = @ + 1,
                             !.returned = @ + 1,
                             !.keyed = @ + (IF has /\ Truthy(DictGet(credentials, "api_key"))
                                            THEN 1 ELSE 0),
                             !.ret = <<>>]
         IN  IF has
             THEN api_key_setter(s1, DictGet(credentials, "api_key"))
             ELSE s1

\* mutant of _get_headers: an api_key of the result is stored only when it is
\* not empty
_get_headers_TruthyOnly(s, prov) ==
    IF ~s.integration
    THEN [s EXCEPT !.exc = ValueError("Integration not found")]
    ELSE IF prov.raises
    THEN [s EXCEPT !.lookups = @ + 1, !.exc = ProviderError]
    ELSE LET credentials == prov.creds
             has == DictHas(credentials, "api_key")
             s1 == [s EXCEPT !.lookups = @ + 1,
                             !.returned = @ + 1,
                             !.keyed = @ + (IF has /\ Truthy(DictGet(credentials, "api_key"))
                                            THEN 1 ELSE 0),
                             !.ret = <<>>]
         IN  IF has /\ Truthy(DictGet(credentials, "api_key"))
             THEN api_key_setter(s1, DictGet(credentials, "api_key"))
             ELSE s1

\* mutant of _get_headers: the failure is remembered in the cache
_get_headers_Remember(s, prov) ==
    IF ~s.integration
    THEN [s EXCEPT !.exc = ValueError("Integration not found"),
                   !.key = StrV("unavailable")]
    ELSE IF prov.raises
    THEN [s EXCEPT !.lookups = @ + 1, !.exc = ProviderError]
    ELSE LET credentials == prov.creds
             has == DictHas(credentials, "api_key")
             s1 == [s EXCEPT !.lookups = @ + 1,
                             !.returned = @ + 1,
                             !.keyed = @ + (IF has /\ Truthy(DictGet(credentials, "api_key"))
                                            THEN 1 ELSE 0),
                             !.ret = <<>>]
         IN  IF has
             THEN api_key_setter(s1, DictGet(credentials, "api_key"))
             ELSE s1

\* mutant of _get_headers: a cached key is kept and the provider not asked
_get_headers_Cached(s, prov) ==
    IF ~s.integration
    THEN [s EXCEPT !.exc = ValueError("Integration not found")]
    ELSE IF Truthy(s.key)
    THEN [s EXCEPT !.ret = <<>>]
    ELSE IF prov.raises
    THEN [s EXCEPT !.lookups = @ + 1, !.exc = ProviderError]
    ELSE LET credentials == prov.creds
             has == DictHas(credentials, "api_key")
             s1 == [s EXCEPT !.lookups = @ + 1,
                             !.returned = @ + 1,
                             !.keyed = @ + (IF has /\ Truthy(DictGet(credentials, "api_key"))
                                            THEN 1 ELSE 0),
                             !.ret = <<>>]
         IN  IF has
             THEN api_key_setter(s1, DictGet(credentials, "api_key"))
             ELSE s1

\* _get_headers, lines 14-21
_get_headers(s, prov) ==
    IF ~s.integration
    THEN [s EXCEPT !.exc = ValueError("Integration not found")]
    ELSE IF prov.raises
    THEN [s EXCEPT !.lookups = @ + 1, !.exc = ProviderError]
    ELSE LET credentials == prov.creds
             has == DictHas(credentials, "api_key")
             s1 == [s EXCEPT !.lookups = @ + 1,
                             !.returned = @ + 1,
                             !.keyed = @ + (IF has /\ Truthy(DictGet(credentials, "api_key"))
                                            THEN 1 ELSE 0),
                             !.ret = <<>>]
         IN  IF has
             THEN api_key_setter(s1, DictGet(credentials, "api_key"))
             ELSE s1

\* mutant of api_key: the cached key is not looked at
api_key_Uncached(s, prov) ==
    LET h == _get_headers(s, prov)
    IN  IF h.exc # NoExc THEN h ELSE [h EXCEPT !.ret = h.key]

\* mutant of api_key: the integration is looked for before the cached key
api_key_NeedsIntegration(s, prov) ==
    IF ~s.integration
    THEN [s EXCEPT !.exc = ValueError("Integration not found")]
    ELSE IF Truthy(s.key)
    THEN [s EXCEPT !.ret = s.key]
    ELSE LET h == _get_headers(s, prov)
         IN  IF h.exc # NoExc THEN h ELSE [h EXCEPT !.ret = h.key]

\* mutant of api_key: an error of the lookup is swallowed and the cached
\* value is returned
api_key_Fallback(s, prov) ==
    IF Truthy(s.key)
    THEN [s EXCEPT !.ret = s.key]
    ELSE LET h == _get_headers(s, prov)
         IN  [h EXCEPT !.exc = NoExc, !.ret = h.key]

\* mutant of api_key: a key still unresolved after the lookup is an error
api_key_Strict(s, prov) ==
    IF Truthy(s.key)
    THEN [s EXCEPT !.ret = s.key]
    ELSE LET h == _get_headers(s, prov)
         IN  IF h.exc # NoExc THEN h
             ELSE IF ~Truthy(h.key) THEN [h EXCEPT !.exc = ValueError("API key not found")]
             ELSE [h EXCEPT !.ret = h.key]

\* the api_key property, lines 23-29
api_key(s, prov) ==
    IF Truthy(s.key)
    THEN [s EXCEPT !.ret = s.key]
    ELSE LET h == _get_headers(s, prov)
         IN  IF h.exc # NoExc THEN h ELSE [h EXCEPT !.ret = h.key]

(***************************************************************************)
(* The steps of a report method.                                           *)
(***************************************************************************)
\* mutant of Bind: a parameter the caller leaves out is None
Bind_NoDefaults(d, supplied) ==
    [n \in {d.sig[i][1] : i \in 1..Len(d.sig)} |->
        IF n \in DOMAIN supplied THEN supplied[n] ELSE None]

\* the parameters of the call after Python has bound the defaults
Bind(d, supplied) ==
    [n \in {d.sig[i][1] : i \in 1..Len(d.sig)} |->
        IF n \in DOMAIN supplied
        THEN supplied[n]
        ELSE (d.sig[CHOOSE i \in 1..Len(d.sig) : d.sig[i][1] = n])[2]]

\* mutant of CheckFails: a required argument is tested with `is None`
CheckFails_IsNone(c, a) ==
    CASE c.kind = "required" -> a[c.arg] = None
      [] c.kind = "maxlen"   -> PyLen(a[c.arg]) > c.max
      [] c.kind = "samelen"  -> PyLen(a[c.arg]) # PyLen(a[c.other])

\* mutant of CheckFails: the lengths are compared with `>`
CheckFails_Longer(c, a) ==
    CASE c.kind = "required" -> ~Truthy(a[c.arg])
      [] c.kind = "maxlen"   -> PyLen(a[c.arg]) > c.max
      [] c.kind = "samelen"  -> PyLen(a[c.arg]) > PyLen(a[c.other])

\* mutant of CheckFails: the maximum is compared with `>=`
CheckFails_OffByOne(c, a) ==
    CASE c.kind = "required" -> ~Truthy(a[c.arg])
      [] c.kind = "maxlen"   -> PyLen(a[c.arg]) >= c.max
      [] c.kind = "samelen"  -> PyLen(a[c.arg]) # PyLen(a[c.other])

\* the condition of one `if ...: raise ValueError(...)`
CheckFails(c, a) ==
    CASE c.kind = "required" -> ~Truthy(a[c.arg])
      [] c.kind = "maxlen"   -> PyLen(a[c.arg]) > c.max
      [] c.kind = "samelen"  -> PyLen(a[c.arg]) # PyLen(a[c.other])

\* mutant of ValidateFrom: the second check of a method runs before its first
RECURSIVE ValidateFrom_Swapped(_, _, _)
ValidateFrom_Swapped(checks, a, i) ==
    IF i > Len(checks) THEN NoExc
    ELSE IF i = 1 /\ Len(checks) >= 2
    THEN IF CheckFails(checks[2], a) THEN ValueError(checks[2].msg)
         ELSE IF CheckFails(checks[1], a) THEN ValueError(checks[1].msg)
         ELSE ValidateFrom_Swapped(checks, a, 3)
    ELSE IF CheckFails(checks[i], a) THEN ValueError(checks[i].msg)
    ELSE ValidateFrom_Swapped(checks, a, i + 1)

\* the checks in their order: the exception of the first that fails
RECURSIVE ValidateFrom(_, _, _)
ValidateFrom(checks, a, i) ==
    IF i > Len(checks) THEN NoExc
    ELSE IF CheckFails(checks[i], a) THEN ValueError(checks[i].msg)
    ELSE ValidateFrom(checks, a, i + 1)

\* mutant of Validate: an empty database is refused
Validate_Database(d, a) ==
    IF "database" \in DOMAIN a /\ ~Truthy(a["database"])
    THEN ValueError("Database parameter is required")
    ELSE ValidateFrom(d.checks, a, 1)

Validate(d, a) == ValidateFrom(d.checks, a, 1)

\* mutant of DictLiteral: the key is the last entry of the literal
DictLiteral_KeyLast(d, a, key) ==
    <<<<"type", StrV(d.type)>>>>
        \o [i \in 1..Len(d.init) |-> <<d.init[i][1], a[d.init[i][2]]>>]
        \o <<<<"key", key>>>>

\* params = {"type": ..., "key": self.api_key, <required>: ...}
DictLiteral(d, a, key) ==
    <<<<"type", StrV(d.type)>>, <<"key", key>>>>
        \o [i \in 1..Len(d.init) |-> <<d.init[i][1], a[d.init[i][2]]>>]

\* for x in xs[lo..hi]: params[wire] = x
\* The elements are assigned in their order.  The range is halved, and the
\* dict after the first half is evaluated before the second half starts, so
\* that the evaluation of a list of MaxTargets elements stays shallow.
RECURSIVE ForAssign(_, _, _, _, _)
ForAssign(params, wire, xs, lo, hi) ==
    IF lo > hi THEN params
    ELSE IF lo = hi THEN DictSet(params, wire, xs[lo])
    ELSE LET mid == (lo + hi) \div 2
             half == ForAssign(params, wire, xs, lo, mid)
         IN  IF Len(half) > 0
             THEN ForAssign(half, wire, xs, mid + 1, hi)
             ELSE half

RECURSIVE AddArrays(_, _, _, _)
AddArrays(params, arrays, a, i) ==
    IF i > Len(arrays) THEN params
    ELSE AddArrays(ForAssign(params, arrays[i][1], a[arrays[i][2]].l,
                             1, Len(a[arrays[i][2]].l)),
                   arrays, a, i + 1)

\* mutant of AddOptional: the key is set without a test
AddOptional_Always(params, wire, x) == DictSet(params, wire, x)

\* mutant of AddOptional: the test is `if x:`
AddOptional_Truthy(params, wire, x) ==
    IF Truthy(x) THEN DictSet(params, wire, x) ELSE params

\* if x is not None: params[wire] = x
AddOptional(params, wire, x) ==
    IF x # None THEN DictSet(params, wire, x) ELSE params

RECURSIVE AddOptionals(_, _, _, _)
AddOptionals(params, opt, a, i) ==
    IF i > Len(opt) THEN params
    ELSE AddOptionals(AddOptional(params, opt[i][1], a[opt[i][2]]),
                      opt, a, i + 1)

\* the params dict of the call
BuildParams(d, a, key) ==
    AddOptionals(AddArrays(DictLiteral(d, a, key), d.arrays, a, 1), d.opt, a, 1)

\* mutant of Endpoint: every report goes to base_url
Endpoint_BaseOnly(d, base) == base

\* the url of the GET: self.base_url, or f"{self.base_url}/analytics/v1"
Endpoint(d, base) == base \o d.path

(***************************************************************************)
(* The transport of the base class APIApplication: _get sends one GET and  *)
(* returns the response, _handle_response turns it into the result.        *)
(***************************************************************************)
RemoteRequestFailed(status, body) ==
    [type |-> "RemoteRequestFailed", status |-> status, body |-> body]

Success(status) == status \in 200..299

_handle_response(response) ==
    IF Success(response.status)
    THEN [exc |-> NoExc,
          ret |-> IF response.ctype = "json"
                  THEN [data |-> response.body]
                  ELSE [text |-> response.body, status_code |-> response.status]]
    ELSE [exc |-> RemoteRequestFailed(response.status, response.body), ret |-> None]

(***************************************************************************)
(* _get of the base class: one GET of url with params.  The outcome is the *)
(* response of the remote side, or no response when the request fails.     *)
(***************************************************************************)
TransportError == [type |-> "TransportError"]
NoResponse == [status |-> 0, ctype |-> "none", body |-> ""]

_get(url, params, outcome) ==
    IF outcome = NoResponse
    THEN [exc |-> TransportError, response |-> NoResponse]
    ELSE [exc |-> NoExc, response |-> outcome]

(***************************************************************************)
(* A report method, whole: validate, read the key, build params, GET,      *)
(* _handle_response.  Returns what the call did:                           *)
(*   key, lookups, returned, keyed : the credential and the spies after it *)
(*   exc, ret            : the exception raised, or the value returned     *)
(*   sent, url, params   : whether _get was called, and with what          *)
(*   gets                : the number of GETs the call issued              *)
(*   steps               : the steps the call started, in order            *)
(***************************************************************************)
NoGet(s, exc, steps) ==
    [key |-> s.key, lookups |-> s.lookups, returned |-> s.returned,
     keyed |-> s.keyed, exc |-> exc, ret |-> None, sent |-> FALSE, url |-> "",
     params |-> <<>>, gets |-> 0, steps |-> steps]

\* the call after its GETs: k is the state after the key was read
AfterGet(k, url, params, n, exc, ret, steps) ==
    [key |-> k.key, lookups |-> k.lookups, returned |-> k.returned,
     keyed |-> k.keyed, exc |-> exc, ret |-> ret, sent |-> TRUE, url |-> url,
     params |-> params, gets |-> n, steps |-> steps]

\* mutant of RunReport: the key is read before the arguments are checked
RunReport_KeyFirst(d, a, s, base, prov, response) ==
    LET k == api_key(s, prov) IN
    IF k.exc # NoExc THEN NoGet(k, k.exc, <<"resolve">>)
    ELSE LET v == Validate(d, a) IN
         IF v # NoExc THEN NoGet(k, v, <<"resolve", "validate">>)
         ELSE LET params == BuildParams(d, a, k.ret)
                  url == Endpoint(d, base)
                  g == _get(url, params, response)
              IN  IF g.exc # NoExc
                  THEN AfterGet(k, url, params, 1, g.exc, None,
                                <<"resolve", "validate", "build", "send">>)
                  ELSE LET r == _handle_response(g.response)
                       IN  AfterGet(k, url, params, 1, r.exc, r.ret,
                                    <<"resolve", "validate", "build", "send", "decode">>)

\* mutant of RunReport: a GET that fails, or is answered with a non-2xx
\* status, is sent a second time
RunReport_Retry(d, a, s, base, prov, response) ==
    LET v == Validate(d, a) IN
    IF v # NoExc THEN NoGet(s, v, <<"validate">>)
    ELSE LET k == api_key(s, prov) IN
         IF k.exc # NoExc THEN NoGet(k, k.exc, <<"validate", "resolve">>)
         ELSE LET params == BuildParams(d, a, k.ret)
                  url == Endpoint(d, base)
                  g == _get(url, params, response)
              IN  IF g.exc # NoExc
                  THEN AfterGet(k, url, params, 2, g.exc, None,
                                <<"validate", "resolve", "build", "send">>)
                  ELSE LET r == _handle_response(g.response)
                       IN  AfterGet(k, url, params,
                                    IF r.exc # NoExc THEN 2 ELSE 1, r.exc, r.ret,
                                    <<"validate", "resolve", "build", "send", "decode">>)

\* mutant of RunReport: a non-2xx answer is returned as text, not raised
RunReport_Swallow(d, a, s, base, prov, response) ==
    LET v == Validate(d, a) IN
    IF v # NoExc THEN NoGet(s, v, <<"validate">>)
    ELSE LET k == api_key(s, prov) IN
         IF k.exc # NoExc THEN NoGet(k, k.exc, <<"validate", "resolve">>)
         ELSE LET params == BuildParams(d, a, k.ret)
                  url == Endpoint(d, base)
                  g == _get(url, params, response)
              IN  IF g.exc # NoExc
                  THEN AfterGet(k, url, params, 1, g.exc, None,
                                <<"validate", "resolve", "build", "send">>)
                  ELSE LET r == _handle_response(g.response)
                       IN  AfterGet(k, url, params, 1, NoExc,
                                    IF r.exc # NoExc
                                    THEN [text |-> g.response.body,
                                          status_code |-> g.response.status]
                                    ELSE r.ret,
                                    <<"validate", "resolve", "build", "send", "decode">>)

\* mutant of RunReport: the method returns only the payload of the result
RunReport_Unwrap(d, a, s, base, prov, response) ==
    LET v == Validate(d, a) IN
    IF v # NoExc THEN NoGet(s, v, <<"validate">>)
    ELSE LET k == api_key(s, prov) IN
         IF k.exc # NoExc THEN NoGet(k, k.exc, <<"validate", "resolve">>)
         ELSE LET params == BuildParams(d, a, k.ret)
                  url == Endpoint(d, base)
                  g == _get(url, params, response)
              IN  IF g.exc # NoExc
                  THEN AfterGet(k, url, params, 1, g.exc, None,
                                <<"validate", "resolve", "build", "send">>)
                  ELSE LET r == _handle_response(g.response)
                       IN  AfterGet(k, url, params, 1, r.exc,
                                    IF r.exc # NoExc THEN None
                                    ELSE StrV(g.response.body),
                                    <<"validate", "resolve", "build", "send", "decode">>)

\* mutant of RunReport: a GET that fails or is refused clears the cached key
RunReport_Invalidate(d, a, s, base, prov, response) ==
    LET v == Validate(d, a) IN
    IF v # NoExc THEN NoGet(s, v, <<"validate">>)
    ELSE LET k == api_key(s, prov) IN
         IF k.exc # NoExc THEN NoGet(k, k.exc, <<"validate", "resolve">>)
         ELSE LET params == BuildParams(d, a, k.ret)
                  url == Endpoint(d, base)
                  g == _get(url, params, response)
              IN  IF g.exc # NoExc
                  THEN AfterGet([k EXCEPT !.key = None], url, params, 1, g.exc, None,
                                <<"validate", "resolve", "build", "send">>)
                  ELSE LET r == _handle_response(g.response)
                       IN  AfterGet(IF r.exc # NoExc THEN [k EXCEPT !.key = None] ELSE k,
                                    url, params, 1, r.exc, r.ret,
                                    <<"validate", "resolve", "build", "send", "decode">>)

RunReport(d, a, s, base, prov, response) ==
    LET v == Validate(d, a) IN
    IF v # NoExc THEN NoGet(s, v, <<"validate">>)
    ELSE LET k == api_key(s, prov) IN
         IF k.exc # NoExc THEN NoGet(k, k.exc, <<"validate", "resolve">>)
         ELSE LET params == BuildParams(d, a, k.ret)
                  url == Endpoint(d, base)
                  g == _get(url, params, response)
              IN  IF g.exc # NoExc
                  THEN AfterGet(k, url, params, 1, g.exc, None,
                                <<"validate", "resolve", "build", "send">>)
                  ELSE LET r == _handle_response(g.response)
                       IN  AfterGet(k, url, params, 1, r.exc, r.ret,
                                    <<"validate", "resolve", "build", "send", "decode">>)

(***************************************************************************)
(* The environment: what the provider may answer and the transport return. *)
(***************************************************************************)
ProviderResults ==
    {[raises |-> TRUE],
     [raises |-> FALSE, creds |-> <<<<"token", StrV("t")>>>>],
     [raises |-> FALSE, creds |-> <<<<"api_key", StrV("")>>>>],
     [raises |-> FALSE, creds |-> <<<<"api_key", StrV("k1")>>>>],
     [raises |-> FALSE, creds |-> <<<<"token", StrV("t")>>, <<"api_key", StrV("k2")>>>>]}

Responses ==
    {[status |-> 200, ctype |-> "json", body |-> "{}"],
     [status |-> 200, ctype |-> "text", body |-> "a;b"],
     [status |-> 403, ctype |-> "text", body |-> "ERROR 120"]}

\* what the GET of a call may come to: a response, or none
Outcomes == Responses \cup {NoResponse}

\* the choice recorded when the provider, or the transport, is not reached
Unasked == [raises |-> TRUE]
Unsent == [status |-> 200, ctype |-> "json", body |-> "{}"]

(***************************************************************************)
(* State.                                                                  *)
(***************************************************************************)
\* 1 when exc is the error of line 16, else 0
NotFoundRaised(exc) ==
    IF exc = ValueError("Integration not found") THEN 1 ELSE 0

Self == [integration |-> integration, key |-> _api_key, lookups |-> lookups,
         returned |-> returned, keyed |-> keyed, exc |-> NoExc, ret |-> None]

\* self before the call, and how the operation before it ended
Pre == [key |-> _api_key, lookups |-> lookups, returned |-> returned,
        keyed |-> keyed, gets |-> gets,
        integration |-> integration, base_url |-> base_url,
        last |-> [op |-> call.op, sent |-> call.sent, exc |-> call.exc]]

NoCall == [op |-> "none", report |-> "", args |-> <<>>, pre |-> <<>>,
           exc |-> NoExc, ret |-> None, sent |-> FALSE, url |-> "",
           params |-> <<>>, prov |-> Unasked, response |-> Unsent,
           steps |-> <<>>, supplied |-> <<>>]

\* mutant of Init: the constructor asks the provider for the key
Init_Eager ==
    /\ integration = TRUE
    /\ _api_key = StrV("k1")
    /\ base_url = "https://api.semrush.com"
    /\ lookups = 1
    /\ returned = 1
    /\ keyed = 1
    /\ gets = 0
    /\ notfound = 0
    /\ calls = 0
    /\ call = NoCall
    /\ threads = <<>>

\* __init__, lines 9-12
Init ==
    /\ integration \in BOOLEAN
    /\ _api_key = None
    /\ base_url = "https://api.semrush.com"
    /\ lookups = 0
    /\ returned = 0
    /\ keyed = 0
    /\ gets = 0
    /\ notfound = 0
    /\ calls = 0
    /\ call = NoCall
    /\ threads = <<>>

(***************************************************************************)
(* Operations.                                                             *)
(***************************************************************************)
\* a call of report method d with the supplied arguments
ReportCall(d, supplied) ==
    /\ calls < MaxCalls
    /\ \E a \in {Bind(d, supplied)} :
       \E prov \in ProviderResults, response \in Outcomes :
       \E r \in {RunReport(d, a, Self, base_url, prov, response)} :
             /\ (r.lookups = lookups) => (prov = Unasked)
             /\ (~r.sent) => (response = Unsent)
             /\ _api_key' = r.key
             /\ lookups' = r.lookups
             /\ returned' = r.returned
             /\ keyed' = r.keyed
             /\ gets' = gets + r.gets
             /\ notfound' = notfound + NotFoundRaised(r.exc)
             /\ calls' = calls + 1
             /\ call' = [op |-> "report", report |-> d.name, args |-> a,
                         pre |-> Pre, exc |-> r.exc, ret |-> r.ret,
                         sent |-> r.sent, url |-> r.url, params |-> r.params,
                         prov |-> prov, response |-> response,
                         steps |-> r.steps, supplied |-> supplied]
             /\ UNCHANGED <<integration, base_url, threads>>

\* a read of the property app.api_key
KeyRequest ==
    /\ calls < MaxCalls
    /\ \E prov \in ProviderResults :
       \E r \in {api_key(Self, prov)} :
             /\ (r.lookups = lookups) => (prov = Unasked)
             /\ _api_key' = r.key
             /\ lookups' = r.lookups
             /\ returned' = r.returned
             /\ keyed' = r.keyed
             /\ calls' = calls + 1
             /\ call' = [NoCall EXCEPT !.op = "api_key", !.pre = Pre,
                                       !.exc = r.exc, !.ret = r.ret,
                                       !.prov = prov]
             /\ notfound' = notfound + NotFoundRaised(r.exc)
             /\ UNCHANGED <<integration, base_url, gets, threads>>

\* a call of app._get_headers()
HeadersRequest ==
    /\ calls < MaxCalls
    /\ \E prov \in ProviderResults :
       \E r \in {_get_headers(Self, prov)} :
             /\ (r.lookups = lookups) => (prov = Unasked)
             /\ _api_key' = r.key
             /\ lookups' = r.lookups
             /\ returned' = r.returned
             /\ keyed' = r.keyed
             /\ calls' = calls + 1
             /\ call' = [NoCall EXCEPT !.op = "_get_headers", !.pre = Pre,
                                       !.exc = r.exc, !.ret = r.ret,
                                       !.prov = prov]
             /\ notfound' = notfound + NotFoundRaised(r.exc)
             /\ UNCHANGED <<integration, base_url, gets, threads>>

\* an assignment app.api_key = value
KeyValues == {StrV(""), StrV("k3")}

SetKey(value) ==
    /\ calls < MaxCalls
    /\ _api_key' = api_key_setter(Self, value).key
    /\ calls' = calls + 1
    /\ call' = [NoCall EXCEPT !.op = "setter", !.pre = Pre]
    /\ UNCHANGED <<integration, base_url, lookups, returned, keyed, gets,
                   notfound, threads>>

\* an assignment app.integration = <a provider>, on an instance without one
Configure ==
    /\ calls < MaxCalls
    /\ ~integration
    /\ integration' = TRUE
    /\ calls' = calls + 1
    /\ call' = [NoCall EXCEPT !.op = "configure", !.pre = Pre]
    /\ UNCHANGED <<_api_key, base_url, lookups, returned, keyed, gets, notfound,
                   threads>>

(***************************************************************************)
(* Arguments a caller supplies.  A missing required argument is the value  *)
(* None; a parameter with a default may be left out.                       *)
(***************************************************************************)
ParamNames(d) == {d.sig[i][1] : i \in 1..Len(d.sig)}
RequiredNames(d) == {d.sig[i][1] : i \in {j \in 1..Len(d.sig) : d.sig[j][2] = NoDefault}}
DefaultedNames(d) == ParamNames(d) \ RequiredNames(d)

ListNames == {"targets", "target_types"}
IntNames == {"display_limit", "display_offset", "export_escape",
             "export_decode", "display_daily"}

\* a list of n strings, its elements alternating
ListOf(n, x, y) == ListV([i \in 1..n |-> StrV(IF i % 2 = 1 THEN x ELSE y)])

ListLengths == (0..MaxShort) \cup {MaxTargets, MaxTargets + 1}

\* the value of a required argument in a call that passes validation
GoodValue(n) ==
    CASE n = "targets"      -> ListOf(2, "a.com", "b.com")
      [] n = "target_types" -> ListOf(2, "root_domain", "url")
      [] n = "target_type"  -> StrV("root_domain")
      [] n = "phrase"       -> StrV("seo")
      [] n = "domains"      -> StrV("*|or|a.com|*|or|b.com")
      [] OTHER              -> StrV("example.com")

ArgValues(n) ==
    CASE n = "targets"      -> {None} \cup {ListOf(k, "a.com", "b.com") : k \in ListLengths}
      [] n = "target_types" -> {None} \cup {ListOf(k, "root_domain", "url") : k \in ListLengths}
      [] n = "database"     -> {None, StrV(""), StrV("uk")}
      [] n \in IntNames     -> {IntV(0), IntV(10)}
      [] n \in {"domain", "domains", "target", "target_type", "phrase"}
                            -> {None, StrV(""), GoodValue(n)}
      [] OTHER              -> {StrV(""), StrV("x")}

\* every assignment of the names in S
Assignments(S) ==
    {f \in [S -> UNION {ArgValues(n) : n \in S}] : \A n \in S : f[n] \in ArgValues(n)}

GoodRequired(d) == [n \in RequiredNames(d) |-> GoodValue(n)]

\* f extended by g
Merge(f, g) ==
    [n \in DOMAIN f \cup DOMAIN g |-> IF n \in DOMAIN g THEN g[n] ELSE f[n]]

\* SpecArgs: every combination of the required arguments alone, and valid
\* required arguments with up to MaxPresent of the defaulted ones supplied
WideArgs(d) ==
    Assignments(RequiredNames(d))
    \cup {Merge(GoodRequired(d), g) :
            g \in UNION {Assignments(S) :
                           S \in {T \in SUBSET DefaultedNames(d) :
                                    Cardinality(T) <= MaxPresent}}}

\* Spec and SpecReports: report methods of every shape (one and two required
\* arguments, list arguments, with and without database, both endpoints),
\* each in a valid call and in a call without its first required argument
SeqReports ==
    {domain_ad_history, domain_vs_domain, backlinks, batch_comparison,
     keyword_difficulty, keyword_overview_all_databases}

FirstName(d) == d.sig[1][1]
SmallArgs(d) ==
    {GoodRequired(d), [GoodRequired(d) EXCEPT ![FirstName(d)] = None]}

(***************************************************************************)
(* Specifications.                                                         *)
(***************************************************************************)
\* any sequence of operations on one instance
Next ==
    \/ \E d \in SeqReports : \E supplied \in SmallArgs(d) : ReportCall(d, supplied)
    \/ KeyRequest
    \/ HeadersRequest
    \/ \E value \in KeyValues : SetKey(value)

Spec == Init /\ [][Next]_vars

\* any sequence of report calls on one instance
NextReports ==
    \E d \in SeqReports : \E supplied \in SmallArgs(d) : ReportCall(d, supplied)

SpecReports == Init /\ [][NextReports]_vars

\* any sequence of report calls and key requests on one instance: the key
\* is written by lookups only
NextKeys ==
    \/ \E d \in SeqReports : \E supplied \in SmallArgs(d) : ReportCall(d, supplied)
    \/ KeyRequest

SpecKeys == Init /\ [][NextKeys]_vars

\* report calls on an instance that starts without an integration and is
\* given one at some moment
InitLate ==
    /\ integration = FALSE
    /\ _api_key = None
    /\ base_url = "https://api.semrush.com"
    /\ lookups = 0
    /\ returned = 0
    /\ keyed = 0
    /\ gets = 0
    /\ notfound = 0
    /\ calls = 0
    /\ call = NoCall
    /\ threads = <<>>

NextLate ==
    \/ \E d \in SeqReports : \E supplied \in SmallArgs(d) : ReportCall(d, supplied)
    \/ Configure

SpecLate == InitLate /\ [][NextLate]_vars

\* one report call with any arguments, on an instance whose key is unset,
\* empty or cached
InitArgs ==
    /\ integration \in BOOLEAN
    /\ _api_key \in {None, StrV(""), StrV("k0")}
    /\ base_url = "https://api.semrush.com"
    /\ lookups = 0
    /\ returned = 0
    /\ keyed = 0
    /\ gets = 0
    /\ notfound = 0
    /\ calls = 0
    /\ call = NoCall
    /\ threads = <<>>

NextArgs ==
    /\ calls = 0
    /\ \E d \in Reports : \E supplied \in WideArgs(d) : ReportCall(d, supplied)

SpecArgs == InitArgs /\ [][NextArgs]_vars

(***************************************************************************)
(* Report calls running concurrently on one instance, one per thread.  A   *)
(* thread runs its report method step by step; a step is one access to the *)
(* instance or to the outside (a read or a write of self._api_key, the     *)
(* call of get_credentials, the GET), and the steps of different threads   *)
(* interleave in any order.  threads[t] is the frame of thread t:          *)
(*   pc          : the step it is at                                       *)
(*   seen, found : the value `if self._api_key` saw, and whether it was    *)
(*                 truthy                                                  *)
(*   late        : whether another thread had stored before that test      *)
(*   asked, prov : whether it called get_credentials, and the answer       *)
(*   key         : the value the api_key property returned to it           *)
(*   sent, url, params, exc, ret : as in the record of a call              *)
(***************************************************************************)
Threads == 1..NumThreads

NewThread ==
    [pc |-> "validate", seen |-> None, found |-> FALSE, late |-> FALSE,
     asked |-> FALSE,
     prov |-> Unasked, key |-> None, sent |-> FALSE, url |-> "", params |-> <<>>,
     exc |-> NoExc, ret |-> None]

\* the report thread t calls, with valid arguments
ThreadReport(t) == IF t % 2 = 1 THEN domain_ad_history ELSE backlinks
ThreadArgs(t) == Bind(ThreadReport(t), GoodRequired(ThreadReport(t)))

\* the checks of the report method, lines 78-79
CheckArgs(t) ==
    /\ threads[t].pc = "validate"
    /\ LET v == Validate(ThreadReport(t), ThreadArgs(t))
       IN  threads' = [threads EXCEPT ![t] =
                          IF v # NoExc
                          THEN [@ EXCEPT !.pc = "done", !.exc = v]
                          ELSE [@ EXCEPT !.pc = "check"]]
    /\ UNCHANGED <<integration, _api_key, base_url, lookups, returned, keyed,
                   gets, notfound, calls, call>>

\* thread u has been through the store of line 19
HasStored(u) ==
    /\ threads[u].asked /\ ~threads[u].prov.raises
    /\ DictHas(threads[u].prov.creds, "api_key")
    /\ threads[u].pc \in {"read", "get", "done"}

\* mutant of CheckCache: the property does not look at the cache
CheckCache_Always(t) ==
    /\ threads[t].pc = "check"
    /\ threads' = [threads EXCEPT ![t] =
                      [@ EXCEPT !.seen = _api_key,
                                !.late = \E u \in Threads \ {t} : HasStored(u),
                                !.pc = "lookup"]]
    /\ UNCHANGED <<integration, _api_key, base_url, lookups, returned, keyed,
                   gets, notfound, calls, call>>

\* `if self._api_key:`, line 26
CheckCache(t) ==
    /\ threads[t].pc = "check"
    /\ threads' = [threads EXCEPT ![t] =
                      [@ EXCEPT !.seen = _api_key,
                                !.found = Truthy(_api_key),
                                !.late = \E u \in Threads \ {t} : HasStored(u),
                                !.pc = IF Truthy(_api_key) THEN "read" ELSE "lookup"]]
    /\ UNCHANGED <<integration, _api_key, base_url, lookups, returned, keyed,
                   gets, notfound, calls, call>>

\* _get_headers up to the answer of the provider, lines 15-18
Lookup(t) ==
    /\ threads[t].pc = "lookup"
    /\ IF ~integration
       THEN /\ threads' = [threads EXCEPT ![t] =
                              [@ EXCEPT !.pc = "done",
                                        !.exc = ValueError("Integration not found")]]
            /\ notfound' = notfound + 1
            /\ UNCHANGED <<lookups, returned, keyed>>
       ELSE \E prov \in ProviderResults :
               /\ notfound' = notfound
               /\ lookups' = lookups + 1
               /\ returned' = returned + (IF prov.raises THEN 0 ELSE 1)
               /\ keyed' = keyed + (IF prov.raises THEN 0
                                    ELSE IF DictHas(prov.creds, "api_key")
                                              /\ Truthy(DictGet(prov.creds, "api_key"))
                                         THEN 1 ELSE 0)
               /\ threads' = [threads EXCEPT ![t] =
                                 IF prov.raises
                                 THEN [@ EXCEPT !.pc = "done", !.asked = TRUE,
                                                !.prov = prov, !.exc = ProviderError]
                                 ELSE [@ EXCEPT !.pc = IF DictHas(prov.creds, "api_key")
                                                       THEN "store" ELSE "read",
                                                !.asked = TRUE, !.prov = prov]]
    /\ UNCHANGED <<integration, _api_key, base_url, gets, calls, call>>

\* `self.api_key = credentials["api_key"]`, lines 19 and 38
Store(t) ==
    /\ threads[t].pc = "store"
    /\ _api_key' = api_key_setter(Self, DictGet(threads[t].prov.creds, "api_key")).key
    /\ threads' = [threads EXCEPT ![t] = [@ EXCEPT !.pc = "read"]]
    /\ UNCHANGED <<integration, base_url, lookups, returned, keyed, gets,
                   notfound, calls, call>>

\* `return self._api_key`, lines 27 and 29
ReadKey(t) ==
    /\ threads[t].pc = "read"
    /\ threads' = [threads EXCEPT ![t] = [@ EXCEPT !.key = _api_key, !.pc = "get"]]
    /\ UNCHANGED <<integration, _api_key, base_url, lookups, returned, keyed,
                   gets, notfound, calls, call>>

\* the params dict, the GET and _handle_response, lines 82-108
SendGet(t) ==
    /\ threads[t].pc = "get"
    /\ \E response \in Outcomes :
          LET params == BuildParams(ThreadReport(t), ThreadArgs(t), threads[t].key)
              url == Endpoint(ThreadReport(t), base_url)
              g == _get(url, params, response)
              r == IF g.exc # NoExc
                   THEN [exc |-> g.exc, ret |-> None]
                   ELSE _handle_response(g.response)
          IN  threads' = [threads EXCEPT ![t] =
                             [@ EXCEPT !.pc = "done", !.sent = TRUE, !.url = url,
                                       !.params = params, !.exc = r.exc,
                                       !.ret = r.ret]]
    /\ gets' = gets + 1
    /\ UNCHANGED <<integration, _api_key, base_url, lookups, returned, keyed,
                   notfound, calls, call>>

\* a fresh instance, its key unset (or set to the empty string), and
\* NumThreads report calls about to start
InitConc ==
    /\ integration \in BOOLEAN
    /\ _api_key \in {None, StrV("")}
    /\ base_url = "https://api.semrush.com"
    /\ lookups = 0
    /\ returned = 0
    /\ keyed = 0
    /\ gets = 0
    /\ notfound = 0
    /\ calls = 0
    /\ call = NoCall
    /\ threads = [t \in Threads |-> NewThread]

NextConc ==
    \E t \in Threads :
        \/ CheckArgs(t)
        \/ CheckCache(t)
        \/ Lookup(t)
        \/ Store(t)
        \/ ReadKey(t)
        \/ SendGet(t)

SpecConc == InitConc /\ [][NextConc]_vars

(***************************************************************************)
(* What the claims speak of, read from the record of the last call.        *)
(***************************************************************************)
IsReport == call.op = "report"
TheReport == CHOOSE d \in Reports : d.name = call.report
Sent == IsReport /\ call.sent

\* the values sent under key k, in the order of the query string
ValuesUnder(params, k) ==
    LET at == SelectSeq([i \in 1..Len(params) |-> i], LAMBDA i : params[i][1] = k)
    IN  [j \in 1..Len(at) |-> params[at[j]][2]]

\* a required argument of the call is None or empty
MissingRequired ==
    \E n \in RequiredNames(TheReport) : ~Truthy(call.args[n])

\* the parameters whose default is None: the optional arguments
OptionalNames(d) == {d.sig[i][1] : i \in {j \in 1..Len(d.sig) : d.sig[j][2] = None}}

\* the wire key of a parameter: "targets[]" for a list, else its own name
WireKey(n) == IF n \in ListNames THEN n \o "[]" ELSE n

IsBatch == IsReport /\ call.report = "batch_comparison"
BothLists == call.args["targets"].t = "list" /\ call.args["target_types"].t = "list"

NotFound == "Integration not found"
\* the call raised one of the ValueErrors of its argument checks
ValidationError == call.exc.type = "ValueError" /\ call.exc.msg # NotFound

\* C1: a report call with a required argument missing or empty raises the
\* validation ValueError and sends no GET.
C1_MissingArgumentNoGet ==
    (IsReport /\ MissingRequired)
        => (ValidationError /\ ~call.sent /\ gets = call.pre.gets)

C1_Witness ==
    /\ IsReport /\ call.report = "backlinks"
    /\ Truthy(call.args["target"]) /\ call.args["target_type"] = StrV("")
    /\ Truthy(call.pre.key) /\ call.pre.integration
    /\ ValidationError /\ gets = 0

\* C2: a report call that fails validation asks the provider nothing and
\* leaves the cached key as it was, whatever the cache held and also without
\* an integration, where the error is the validation error and not
\* "Integration not found".
C2_ValidationBeforeCredential ==
    (IsReport /\ (MissingRequired \/ ValidationError))
        => /\ ValidationError
           /\ lookups = call.pre.lookups
           /\ keyed = call.pre.keyed
           /\ _api_key = call.pre.key

C2_Witness ==
    /\ IsReport /\ MissingRequired
    /\ ~call.pre.integration /\ call.pre.key = None
    /\ ValidationError /\ lookups = 0 /\ _api_key = None

\* C3 as stated: over any sequence of report calls at most one lookup is
\* sent to the provider, whatever the provider returns.  (Only the lookups
\* the provider answered are counted here, so that a provider that raises
\* does not decide the claim.)
C3_AtMostOneLookup == returned <= 1

\* C3 amended: over any sequence of report calls at most one lookup returns a
\* non-empty api_key, a report call that finds a non-empty key cached asks
\* the provider nothing, and no report call asks it more than once.
C3_AtMostOneKeyedLookup ==
    /\ keyed <= 1
    /\ returned <= lookups
    /\ IsReport => /\ lookups <= call.pre.lookups + 1
                   /\ Truthy(call.pre.key) => lookups = call.pre.lookups

C3_Witness ==
    /\ IsReport /\ calls >= 2 /\ gets >= 2
    /\ lookups = 1 /\ keyed = 1
    /\ Truthy(call.pre.key) /\ call.sent

\* C4: an optional argument left None puts no key in the params of the GET,
\* database of keyword_overview_all_databases included.
C4_AbsentInAbsentOut ==
    Sent => \A n \in OptionalNames(TheReport) :
                (call.args[n] = None) => ~DictHas(call.params, WireKey(n))

C4_Witness ==
    /\ Sent /\ call.report = "keyword_overview_all_databases"
    /\ call.args["database"] = None
    /\ call.args["export_escape"] # None
    /\ ~DictHas(call.params, "database")
    /\ DictHas(call.params, "export_escape")

\* C5: the wire key of an optional argument is in the params exactly when
\* the argument is not None, and then holds the caller's value, 0 and ""
\* included.
C5_FalsyButPresent ==
    Sent => \A n \in OptionalNames(TheReport) :
                /\ DictHas(call.params, WireKey(n)) <=> (call.args[n] # None)
                /\ (call.args[n] # None)
                      => ValuesUnder(call.params, WireKey(n)) = <<call.args[n]>>

C5_Witness ==
    /\ Sent /\ call.report = "domain_ad_history"
    /\ call.args["display_limit"] = IntV(0)
    /\ call.args["export_columns"] = StrV("")
    /\ DictGet(call.params, "display_limit") = IntV(0)
    /\ DictGet(call.params, "export_columns") = StrV("")

\* what the params hold for a required argument that the caller gave as v:
\* v itself, and for a list its elements one by one under the repeated key
Carries(params, n, v) ==
    ValuesUnder(params, WireKey(n)) = (IF v.t = "list" THEN v.l ELSE <<v>>)

\* C6: the params of every GET hold `key` with the credential, `type` with
\* the discriminator of the report, and every required argument under its
\* wire key with the caller's value.
C6_CredentialTypeRequired ==
    Sent => /\ ValuesUnder(call.params, "key") = <<_api_key>>
            /\ ValuesUnder(call.params, "type") = <<StrV(TheReport.type)>>
            /\ \A n \in RequiredNames(TheReport) :
                  Carries(call.params, n, call.args[n])

\* C7: batch_comparison sends all its targets under targets[] and all its
\* target types under target_types[], in input order, none dropped.
C7_AllTargetsSent ==
    (Sent /\ IsBatch)
        => /\ ValuesUnder(call.params, "targets[]") = call.args["targets"].l
           /\ ValuesUnder(call.params, "target_types[]") = call.args["target_types"].l

\* C8: batch_comparison with non-empty targets and target_types of different
\* lengths fails validation: no params, no lookup, no GET.
C8_MismatchedLengths ==
    (IsBatch /\ BothLists
        /\ Truthy(call.args["targets"]) /\ Truthy(call.args["target_types"])
        /\ PyLen(call.args["targets"]) # PyLen(call.args["target_types"]))
        => /\ ValidationError
           /\ ~call.sent /\ call.params = <<>>
           /\ lookups = call.pre.lookups /\ _api_key = call.pre.key
           /\ gets = call.pre.gets

C8_Witness ==
    /\ IsBatch /\ BothLists
    /\ PyLen(call.args["targets"]) = 2 /\ PyLen(call.args["target_types"]) = 3
    /\ call.pre.integration /\ call.pre.key = None
    /\ call.exc = ValueError("Targets and target_types arrays must have the same length")
    /\ lookups = 0 /\ gets = 0

\* C9: batch_comparison rejects more than MaxTargets targets without a GET,
\* and accepts exactly MaxTargets targets with as many target types: the
\* call goes on to the credential and, once it has it, to the GET.
C9_MaximumTargets ==
    (IsBatch /\ BothLists)
        => /\ (PyLen(call.args["targets"]) > MaxTargets)
                => (ValidationError /\ ~call.sent /\ gets = call.pre.gets)
           /\ (/\ PyLen(call.args["targets"]) = MaxTargets
               /\ PyLen(call.args["target_types"]) = MaxTargets)
                => /\ ~ValidationError
                   /\ Truthy(call.pre.key) => call.sent

C9_Witness ==
    /\ IsBatch /\ BothLists
    /\ PyLen(call.args["targets"]) = MaxTargets
    /\ PyLen(call.args["target_types"]) = MaxTargets
    /\ call.sent /\ gets = 1

\* the reports the claim lists as the backlinks family
BacklinksFamily ==
    {"backlinks", "backlinks_overview", "anchors", "authority_score_profile",
     "batch_comparison", "categories", "categories_profile", "competitors",
     "indexed_pages", "referring_domains", "referring_domains_by_country"}

HasBacklinksType(d) == Len(d.type) >= 9 /\ SubSeq(d.type, 1, 9) = "backlinks"

\* C10: the GET of a backlinks-family report (the type begins with
\* "backlinks") goes to base_url + "/analytics/v1", the GET of any other
\* report to base_url, whatever the arguments.
C10_StaticEndpoint ==
    Sent => /\ (call.report \in BacklinksFamily) <=> HasBacklinksType(TheReport)
            /\ call.url = (IF call.report \in BacklinksFamily
                           THEN call.pre.base_url \o "/analytics/v1"
                           ELSE call.pre.base_url)
            /\ base_url = call.pre.base_url

C10_Witness ==
    /\ Sent /\ call.report = "referring_domains"
    /\ call.args["display_limit"] # None
    /\ call.url = "https://api.semrush.com/analytics/v1"

(***************************************************************************)
(* The transport and the result of a report call.                          *)
(***************************************************************************)
\* the arguments of the call pass every check of the method
PassesValidation == Validate(TheReport, call.args) = NoExc

\* the read of the key came back: from the cache, or from a provider that
\* answered (with or without an api_key)
ObtainsCredential ==
    \/ Truthy(call.pre.key)
    \/ call.pre.integration /\ ~call.prov.raises

\* the GET was answered, with a status outside 200..299
Refused ==
    /\ Sent /\ call.response # NoResponse
    /\ (call.response.status < 200 \/ call.response.status > 299)

\* the GET was answered with a status in 200..299
Answered ==
    /\ Sent /\ call.response # NoResponse
    /\ call.response.status >= 200 /\ call.response.status <= 299

\* C11: a report call that passes validation and obtains its credential
\* issues exactly one GET, also when that GET fails or is answered with a
\* non-2xx status: there is no second GET.
C11_ExactlyOneGet ==
    (IsReport /\ PassesValidation /\ ObtainsCredential)
        => /\ call.sent
           /\ gets = call.pre.gets + 1

C11_Witness ==
    /\ IsReport /\ PassesValidation /\ ObtainsCredential
    /\ call.response = NoResponse /\ call.exc.type = "TransportError"
    /\ gets = call.pre.gets + 1

\* C12: a report call whose GET is answered with a non-2xx status raises
\* RemoteRequestFailed with that status and the body of the response; it
\* returns no value and raises nothing else.
C12_NonSuccessRaises ==
    Refused
        => /\ call.exc = [type |-> "RemoteRequestFailed",
                          status |-> call.response.status,
                          body |-> call.response.body]
           /\ call.ret = None

C12_Witness ==
    /\ Refused /\ call.response.status = 403
    /\ call.exc.type = "RemoteRequestFailed" /\ call.exc.status = 403
    /\ call.exc.body = "ERROR 120"

\* C13: a report call whose GET is answered with a 2xx status raises nothing
\* and returns the decoded body when the content type is json, else the raw
\* text with the status code; the result is the same for every report.
C13_SuccessResult ==
    Answered
        => /\ call.exc = NoExc
           /\ call.ret = (IF call.response.ctype = "json"
                          THEN [data |-> call.response.body]
                          ELSE [text |-> call.response.body,
                                status_code |-> call.response.status])

C13_Witness ==
    /\ Answered /\ call.response.ctype = "text"
    /\ call.report = "keyword_difficulty"
    /\ call.ret = [text |-> "a;b", status_code |-> 200]

(***************************************************************************)
(* The credential.                                                         *)
(***************************************************************************)
IsKeyRequest == call.op = "api_key"

\* the last operation needed the key: a key request, or a report call whose
\* arguments passed its checks
NeedsKey == IsKeyRequest \/ (IsReport /\ PassesValidation)

\* nothing of the instance but the cached key differs from before the call
OnlyKeyMayDiffer ==
    /\ integration = call.pre.integration
    /\ base_url = call.pre.base_url

\* C14: with no key cached and no integration, a key request and a valid
\* report call raise ValueError("Integration not found"); the provider is not
\* asked, no GET is sent and the cached key stays as it was.
C14_IntegrationNotFound ==
    (NeedsKey /\ ~Truthy(call.pre.key) /\ ~call.pre.integration)
        => /\ call.exc = [type |-> "ValueError", msg |-> "Integration not found"]
           /\ call.ret = None
           /\ ~call.sent /\ gets = call.pre.gets
           /\ lookups = call.pre.lookups
           /\ _api_key = call.pre.key

C14_Witness ==
    /\ IsReport /\ PassesValidation
    /\ call.pre.key = None /\ ~call.pre.integration
    /\ call.exc.type = "ValueError" /\ call.exc.msg = NotFound
    /\ gets = 0 /\ _api_key = None

\* C15: a key request that finds no key cached and whose lookup is answered
\* stores and returns the api_key of the result when the result has one (an
\* empty one too); when it has none the cache stays as it was and the
\* previous value is returned.
C15_StoreAndReturn ==
    (/\ IsKeyRequest /\ ~Truthy(call.pre.key)
     /\ call.pre.integration /\ ~call.prov.raises)
        => /\ call.exc = NoExc
           /\ lookups = call.pre.lookups + 1
           /\ IF \E i \in 1..Len(call.prov.creds) : call.prov.creds[i][1] = "api_key"
              THEN \E i \in 1..Len(call.prov.creds) :
                      /\ call.prov.creds[i][1] = "api_key"
                      /\ _api_key = call.prov.creds[i][2]
                      /\ call.ret = call.prov.creds[i][2]
              ELSE /\ _api_key = call.pre.key
                   /\ call.ret = call.pre.key

C15_Witness ==
    /\ IsKeyRequest /\ call.pre.key = StrV("") /\ call.pre.integration
    /\ ~call.prov.raises /\ ~DictHas(call.prov.creds, "api_key")
    /\ call.ret = StrV("") /\ _api_key = StrV("")

\* C16: a key request that finds a (non-empty) key cached returns it, asks
\* the provider nothing and changes nothing, with or without an integration;
\* so a repeated key request returns the same value.
C16_CachedKeyReturned ==
    (IsKeyRequest /\ Truthy(call.pre.key))
        => /\ call.exc = NoExc
           /\ call.ret = call.pre.key
           /\ _api_key = call.pre.key
           /\ lookups = call.pre.lookups
           /\ returned = call.pre.returned
           /\ gets = call.pre.gets
           /\ OnlyKeyMayDiffer

C16_Witness ==
    /\ IsKeyRequest /\ call.pre.key = StrV("k3") /\ ~call.pre.integration
    /\ call.ret = StrV("k3") /\ lookups = 0

\* C17 as stated: nothing is asked at construction, and over the life of the
\* instance the provider answers one lookup at most.  (As in C3 only the
\* answered lookups are counted.)
C17_LazyExactlyOne ==
    /\ (calls = 0) => (lookups = 0 /\ _api_key = None)
    /\ returned <= 1

\* C17: after construction nothing has been asked and no key is held.  The
\* provider is asked only by a report call or key request that needs the key
\* and finds none cached on an instance with an integration, once per such
\* call; a call that finds a key cached asks nothing, and at most one lookup
\* ever returns a non-empty key.
C17_LazyLookups ==
    /\ (calls = 0) => (lookups = 0 /\ _api_key = None)
    /\ (calls > 0) =>
          /\ (lookups # call.pre.lookups)
                => /\ NeedsKey
                   /\ ~Truthy(call.pre.key) /\ call.pre.integration
                   /\ lookups = call.pre.lookups + 1
          /\ (NeedsKey /\ ~Truthy(call.pre.key) /\ call.pre.integration)
                => lookups = call.pre.lookups + 1
    /\ keyed <= 1

C17_Witness ==
    /\ calls = 3 /\ IsReport /\ PassesValidation
    /\ Truthy(call.pre.key) /\ call.sent
    /\ lookups = 1 /\ keyed = 1

\* C18 as stated: once a (non-empty) key is cached, no report call, key
\* request or header request changes it, whatever the provider returns.
C18_ResolvedKeyKept ==
    (call.op \in {"report", "api_key", "_get_headers"} /\ Truthy(call.pre.key))
        => _api_key = call.pre.key

\* C18: once a (non-empty) key is cached, no report call and no key request
\* changes it, whatever the provider would return and whatever else the call
\* does; the cache is written only by a call that found it empty, by a
\* header request and by the setter.
C18_ResolvedKeyKeptByCalls ==
    /\ (call.op \in {"report", "api_key"} /\ Truthy(call.pre.key))
          => (_api_key = call.pre.key /\ lookups = call.pre.lookups)
    /\ (calls > 0 /\ _api_key # call.pre.key)
          => \/ call.op = "setter"
             \/ call.op = "_get_headers" /\ call.pre.integration
             \/ NeedsKey /\ ~Truthy(call.pre.key) /\ call.pre.integration

C18_Witness ==
    /\ calls = 3 /\ IsReport /\ call.sent
    /\ call.pre.key = StrV("k2") /\ call.pre.lookups = 1
    /\ _api_key = StrV("k2") /\ lookups = 1

(***************************************************************************)
(* The order of the steps of a report call.                                *)
(***************************************************************************)
Order == <<"validate", "resolve", "build", "send", "decode">>

\* C20: a report call starts its steps in the order validate, resolve, build,
\* send, decode, each one only after the one before it succeeded: a call
\* whose arguments fail the checks asks the provider nothing, a call whose
\* key read raises sends nothing, a GET without response is not decoded.
\* After the call integration and base_url are as before; only the cached
\* key may differ.
C20_FixedOrder ==
    IsReport
        => /\ \E n \in 1..Len(Order) : call.steps = SubSeq(Order, 1, n)
           /\ (Len(call.steps) >= 2) <=> PassesValidation
           /\ (Len(call.steps) >= 3) <=> (PassesValidation /\ ObtainsCredential)
           /\ (Len(call.steps) >= 4) <=> call.sent
           /\ (Len(call.steps) = 5) <=> (call.sent /\ call.response # NoResponse)
           /\ (Len(call.steps) = 1)
                 => (lookups = call.pre.lookups /\ _api_key = call.pre.key)
           /\ (Len(call.steps) <= 2) => (gets = call.pre.gets)
           /\ (Len(call.steps) < 5) => (call.exc # NoExc /\ call.ret = None)
           /\ OnlyKeyMayDiffer

C20_Witness ==
    /\ IsReport /\ call.steps = Order
    /\ call.pre.key = None /\ _api_key = StrV("k1")
    /\ call.exc = NoExc /\ gets = 1
    /\ base_url = "https://api.semrush.com" /\ integration

(***************************************************************************)
(* Concurrent report calls.                                                *)
(***************************************************************************)
\* the lookup of thread t was answered with a non-empty api_key
GotKey(t) ==
    /\ threads[t].asked /\ ~threads[t].prov.raises
    /\ DictHas(threads[t].prov.creds, "api_key")
    /\ Truthy(DictGet(threads[t].prov.creds, "api_key"))

\* the keys the provider has returned so far
Issued ==
    {DictGet(threads[t].prov.creds, "api_key") : t \in {u \in Threads : GotKey(u)}}

AllDone == \A t \in Threads : threads[t].pc = "done"

\* C19: the report calls have all found no key cached, asked the provider
\* and been answered, and one answer at least held a non-empty api_key; when
\* they have all ended the cache holds a key the provider returned, not an
\* unresolved value.  The code takes no lock between the test (line 26), the
\* lookup (17), the store (19) and the read (29), so a store of "" can follow
\* a store of a key: the cache ends unresolved, which no serial order of the
\* calls does.
C19_NeverUnresolved ==
    (/\ AllDone /\ keyed >= 1
     /\ \A t \in Threads : /\ ~threads[t].found
                           /\ threads[t].asked /\ ~threads[t].prov.raises)
        => (Truthy(_api_key) /\ _api_key \in Issued)

(***************************************************************************)
(* The params of particular calls.                                         *)
(***************************************************************************)
\* C21: domain_ad_history called with a non-empty domain and nothing else,
\* once its key read has returned, sends one GET to base_url whose params are
\* exactly type, key, domain and database = "us", in this order, the key
\* being the value the instance holds after the read.
C21_DomainAdHistoryDefault ==
    (/\ IsReport /\ call.report = "domain_ad_history"
     /\ DOMAIN call.supplied = {"domain"} /\ Truthy(call.supplied["domain"])
     /\ ObtainsCredential)
        => /\ call.sent
           /\ call.params = <<<<"type", StrV("domain_ad_history")>>,
                              <<"key", _api_key>>,
                              <<"domain", call.supplied["domain"]>>,
                              <<"database", StrV("us")>>>>
           /\ call.url = call.pre.base_url
           /\ call.url = "https://api.semrush.com"
           /\ gets = call.pre.gets + 1

C21_Witness ==
    /\ IsReport /\ call.report = "domain_ad_history"
    /\ DOMAIN call.supplied = {"domain"}
    /\ call.supplied["domain"] = StrV("example.com")
    /\ call.pre.key = None /\ _api_key = StrV("k2")
    /\ call.params = <<<<"type", StrV("domain_ad_history")>>,
                       <<"key", StrV("k2")>>,
                       <<"domain", StrV("example.com")>>,
                       <<"database", StrV("us")>>>>
    /\ gets = 1

\* the call asked the provider and the lookup raised
LookupRaised ==
    /\ IsReport /\ PassesValidation
    /\ ~Truthy(call.pre.key) /\ call.pre.integration
    /\ call.prov.raises

\* C22: a report call whose provider lookup raises ends with that error: no
\* GET is sent, nothing is returned and the cached key is as before.  And no
\* report call that raises returns a value as well.
C22_FailurePropagates ==
    /\ LookupRaised
          => /\ call.exc = [type |-> "ProviderError"]
             /\ lookups = call.pre.lookups + 1
             /\ ~call.sent /\ gets = call.pre.gets
             /\ call.ret = None
             /\ _api_key = call.pre.key
    /\ (IsReport /\ call.exc # NoExc) => call.ret = None
    /\ (IsReport /\ call.exc = NoExc) => call.sent

C22_Witness ==
    /\ LookupRaised /\ call.report = "keyword_difficulty"
    /\ call.pre.key = StrV("") /\ _api_key = StrV("")
    /\ call.exc.type = "ProviderError" /\ gets = 0 /\ lookups = 1

\* the keys of params in their order
KeysOf(params) == [i \in 1..Len(params) |-> params[i][1]]

\* the wire keys of the required arguments of d, and of its optional ones
RequiredKeys(d) == {WireKey(n) : n \in RequiredNames(d)}
OptionalKeys(d) == {d.opt[i][1] : i \in 1..Len(d.opt)}

\* the place of optional key k in the method's sequence of `is not None` tests
OptionalRank(d, k) == CHOOSE i \in 1..Len(d.opt) : d.opt[i][1] = k

\* C23: the params of a GET are ordered: "type" first, "key" second, then the
\* required arguments, and the optional arguments that are present come last,
\* in the order of the method's tests whichever of them are present; no key
\* occurs twice.
C23_OrderedParams ==
    Sent =>
        LET ks == KeysOf(call.params)
            d == TheReport
        IN  /\ Len(ks) >= 2 + Cardinality(RequiredKeys(d))
            /\ ks[1] = "type" /\ ks[2] = "key"
            /\ {ks[i] : i \in 3..(2 + Cardinality(RequiredKeys(d)))} = RequiredKeys(d)
            /\ \A i, j \in 1..Len(ks) :
                  (i < j) =>
                     /\ ks[i] # ks[j]
                     /\ (ks[i] \in OptionalKeys(d)) => (ks[j] \in OptionalKeys(d))
                     /\ (ks[i] \in OptionalKeys(d))
                           => (OptionalRank(d, ks[i]) < OptionalRank(d, ks[j]))

C23_Witness ==
    /\ Sent /\ call.report = "batch_keyword_overview"
    /\ DOMAIN call.supplied = {"phrase", "export_columns", "export_escape"}
    /\ KeysOf(call.params) = <<"type", "key", "phrase", "database",
                               "export_escape", "export_columns">>

(***************************************************************************)
(* An integration configured after a failure.                              *)
(***************************************************************************)
\* the provider answered the lookup of the call with a non-empty api_key
GivesKey(prov) ==
    /\ ~prov.raises
    /\ DictHas(prov.creds, "api_key")
    /\ Truthy(DictGet(prov.creds, "api_key"))

\* a valid report call on an instance that has failed with "Integration not
\* found" before, has an integration now and has never been given a key
AfterConfigure ==
    /\ IsReport /\ PassesValidation
    /\ notfound >= 1
    /\ call.pre.integration /\ call.pre.keyed = 0

\* C24: a report call that failed with "Integration not found" leaves nothing
\* behind: once an integration is configured, a valid report call asks the
\* provider, and when the answer holds a non-empty api_key the call caches
\* it and sends its GET with it.
C24_FailureNotRemembered ==
    AfterConfigure
        => /\ lookups = call.pre.lookups + 1
           /\ call.exc # [type |-> "ValueError", msg |-> "Integration not found"]
           /\ GivesKey(call.prov)
                 => /\ _api_key = DictGet(call.prov.creds, "api_key")
                    /\ keyed = 1
                    /\ call.sent /\ gets = call.pre.gets + 1
                    /\ ValuesUnder(call.params, "key") = <<_api_key>>

C24_Witness ==
    /\ AfterConfigure /\ calls = 3 /\ notfound = 1
    /\ call.pre.key = None /\ call.pre.lookups = 0
    /\ GivesKey(call.prov) /\ _api_key = StrV("k1")
    /\ call.sent /\ ValuesUnder(call.params, "key") = <<StrV("k1")>>
    /\ gets = 1

(***************************************************************************)
(* A provider without a key.                                               *)
(***************************************************************************)
\* a valid report call found no key cached, asked, and was answered with a
\* result that has no api_key or an empty one
AnsweredWithoutKey ==
    /\ IsReport /\ PassesValidation
    /\ call.pre.integration /\ ~Truthy(call.pre.key)
    /\ ~call.prov.raises /\ ~GivesKey(call.prov)

\* C25: a valid report call whose lookup is answered without a (non-empty)
\* api_key does not fail for that: it sends its GET with the unresolved value
\* (None or "") as key and leaves the cache unresolved, so the next call asks
\* again.  As long as no lookup has returned a key, every answered lookup
\* belongs to a call that then sent its GET: lookups grow with the calls.
C25_UnresolvedKeySent ==
    /\ AnsweredWithoutKey
          => /\ call.sent /\ gets = call.pre.gets + 1
             /\ lookups = call.pre.lookups + 1
             /\ ~Truthy(_api_key)
             /\ _api_key \in {None, StrV("")}
             /\ ValuesUnder(call.params, "key") = <<_api_key>>
             /\ call.exc.type \notin {"ValueError", "ProviderError"}
    /\ (keyed = 0) => (returned = gets /\ ~Truthy(_api_key))

C25_Witness ==
    /\ AnsweredWithoutKey /\ calls = 3
    /\ lookups = 3 /\ gets = 3 /\ keyed = 0
    /\ call.pre.key = StrV("") /\ ~DictHas(call.prov.creds, "api_key")
    /\ ValuesUnder(call.params, "key") = <<StrV("")>>

(***************************************************************************)
(* _get_headers called directly.                                           *)
(***************************************************************************)
IsHeadersRequest == call.op = "_get_headers"

\* C26: on an instance with an integration every call of _get_headers asks
\* the provider, whether a key is cached or not; when the provider answers,
\* the api_key of the answer, if it has one, replaces the cached key (else
\* the cache stays) and the call returns the empty dict.  The key travels in
\* the params of the GET, under "key".
C26_HeadersAlwaysAsk ==
    /\ (IsHeadersRequest /\ call.pre.integration)
          => /\ lookups = call.pre.lookups + 1
             /\ gets = call.pre.gets
             /\ call.prov.raises
                   => (call.exc = [type |-> "ProviderError"] /\ _api_key = call.pre.key)
             /\ ~call.prov.raises
                   => /\ call.exc = NoExc
                      /\ call.ret = <<>>
                      /\ IF DictHas(call.prov.creds, "api_key")
                         THEN _api_key = DictGet(call.prov.creds, "api_key")
                         ELSE _api_key = call.pre.key
    /\ (IsHeadersRequest /\ call.exc = NoExc) => call.ret = <<>>
    /\ Sent => \E i \in 1..Len(call.params) :
                  /\ call.params[i][1] = "key"
                  /\ call.params[i][2] = _api_key

C26_Witness ==
    /\ IsHeadersRequest /\ call.pre.integration
    /\ call.pre.key = StrV("k1") /\ call.pre.lookups = 1
    /\ ~call.prov.raises /\ _api_key = StrV("k2")
    /\ call.ret = <<>> /\ lookups = 2

(***************************************************************************)
(* The cache after a GET that failed.                                      *)
(***************************************************************************)
\* the GET of the call failed, or was answered with a non-2xx status
GetFailed == Sent /\ call.exc # NoExc

\* the operation before this one was a report call whose GET failed
AfterFailedGet ==
    /\ call.pre.last.op = "report"
    /\ call.pre.last.sent /\ call.pre.last.exc # NoExc

\* C27: a report call whose GET fails, or is answered with a non-2xx status,
\* leaves in the cache the key it sent (the key cached before the call, if
\* there was one).  The report call after it finds that key, asks the
\* provider nothing and, if valid, sends its GET with the same key.
C27_FailedGetKeepsKey ==
    /\ GetFailed
          => /\ ValuesUnder(call.params, "key") = <<_api_key>>
             /\ Truthy(call.pre.key)
                   => (_api_key = call.pre.key /\ lookups = call.pre.lookups)
    /\ (IsReport /\ AfterFailedGet /\ Truthy(call.pre.key))
          => /\ _api_key = call.pre.key
             /\ lookups = call.pre.lookups
             /\ PassesValidation
                   => (call.sent /\ ValuesUnder(call.params, "key") = <<call.pre.key>>)

C27_Witness ==
    /\ IsReport /\ AfterFailedGet /\ PassesValidation
    /\ call.pre.last.exc.type = "RemoteRequestFailed"
    /\ call.pre.key = StrV("k1") /\ call.pre.lookups = 1
    /\ call.sent /\ ValuesUnder(call.params, "key") = <<StrV("k1")>>
    /\ lookups = 1 /\ gets = 2

\* C28: NumThreads report calls run concurrently on an instance with an
\* integration whose provider answers every lookup with a non-empty api_key.
\* Then every lookup made is the one lookup of a different call, so there are
\* at most NumThreads of them, and a call whose test of the cache comes after
\* another call has stored finds the key and asks nothing.
C28_LookupsUnderRace ==
    (integration /\ \A t \in Threads : threads[t].asked => GotKey(t))
        => /\ lookups = Cardinality({t \in Threads : threads[t].asked})
           /\ lookups <= NumThreads
           /\ \A t \in Threads :
                 /\ threads[t].late => (threads[t].found /\ ~threads[t].asked)
                 /\ threads[t].found => ~threads[t].asked
                 /\ (threads[t].pc = "done") => threads[t].sent

C28_Witness ==
    /\ AllDone /\ integration
    /\ threads[1].asked /\ GotKey(1)
    /\ threads[2].late /\ threads[2].found /\ ~threads[2].asked
    /\ lookups = 1 /\ gets >= 2
    /\ ValuesUnder(threads[2].params, "key") = <<StrV("k1")>>

(***************************************************************************)
(* The order of the argument checks.                                       *)
(***************************************************************************)
\* the report takes the two required arguments target and target_type
TwoTarget == IsReport /\ RequiredNames(TheReport) = {"target", "target_type"}

Raised(msg) == call.exc = [type |-> "ValueError", msg |-> msg]

\* C29: the first failing check gives the error.  In a report with target and
\* target_type an empty target is reported whatever target_type is, and an
\* empty target_type only when target is given.  In batch_comparison the
\* order is: empty targets, empty target_types, more than MaxTargets targets,
\* different lengths.
C29_FirstFailingCheck ==
    /\ TwoTarget
          => /\ ~Truthy(call.args["target"])
                   => Raised("Target parameter is required")
             /\ (Truthy(call.args["target"]) /\ ~Truthy(call.args["target_type"]))
                   => Raised("Target_type parameter is required")
    /\ IsBatch
          => /\ ~Truthy(call.args["targets"])
                   => Raised("Targets parameter is required")
             /\ (Truthy(call.args["targets"]) /\ ~Truthy(call.args["target_types"]))
                   => Raised("Target_types parameter is required")
             /\ (/\ Truthy(call.args["targets"]) /\ Truthy(call.args["target_types"])
                 /\ PyLen(call.args["targets"]) > MaxTargets)
                   => Raised("Maximum 200 targets allowed")
             /\ (/\ Truthy(call.args["targets"]) /\ Truthy(call.args["target_types"])
                 /\ PyLen(call.args["targets"]) <= MaxTargets
                 /\ PyLen(call.args["targets"]) # PyLen(call.args["target_types"]))
                   => Raised("Targets and target_types arrays must have the same length")

C29_Witness ==
    /\ IsBatch /\ BothLists
    /\ PyLen(call.args["targets"]) = MaxTargets + 1
    /\ PyLen(call.args["target_types"]) = 2
    /\ Raised("Maximum 200 targets allowed")
    /\ ~call.sent

(***************************************************************************)
(* The database argument.                                                  *)
(***************************************************************************)
\* a call of a report that has a database parameter, with every required
\* argument given
WithDatabase ==
    /\ IsReport /\ "database" \in ParamNames(TheReport)
    /\ "database" \notin RequiredNames(TheReport)
    /\ \A n \in RequiredNames(TheReport) : Truthy(call.args[n])

\* C30: no report checks its database argument.  A call with its required
\* arguments given and database "" or None passes the checks and, once the
\* key read has returned, sends a GET whose params hold "database" with that
\* value; only keyword_overview_all_databases leaves the key out when
\* database is None.  Every report that has a database parameter has it as
\* an argument with a default.
C30_DatabaseNotValidated ==
    /\ (IsReport /\ "database" \in ParamNames(TheReport))
          => "database" \notin RequiredNames(TheReport)
    /\ WithDatabase
          => /\ PassesValidation
             /\ ~ValidationError
             /\ ObtainsCredential
                   => /\ call.sent
                      /\ IF /\ call.report = "keyword_overview_all_databases"
                            /\ call.args["database"] = None
                         THEN ValuesUnder(call.params, "database") = <<>>
                         ELSE ValuesUnder(call.params, "database")
                                 = <<call.args["database"]>>

C30_Witness ==
    /\ WithDatabase /\ call.report = "domain_organic_search_keywords"
    /\ call.args["database"] = StrV("")
    /\ call.sent /\ ValuesUnder(call.params, "database") = <<StrV("")>>

====
